---- MODULE Spec2Model ----
(***************************************************************************)
(* Model of the mcp_tool_gateway authentication envelope: JWT issuance and *)
(* verification (security.py, auth.py), the ASGI auth gate                 *)
(* (middleware.py), and the POST /messages forwarding alias (app.py).      *)
(*                                                                         *)
(* Strings that the code splits, joins or compares by prefix are modelled  *)
(* as sequences of atoms (an atom is a run of non-whitespace characters,   *)
(* or the single whitespace atom SP), so that split/join/startswith are    *)
(* computed as the code computes them.                                     *)
(***************************************************************************)
EXTENDS Integers, Sequences, FiniteSets, TLC

VARIABLES
    settings,   \* the process-wide Settings object (immutable after start)
    now,        \* the wall clock, in whole seconds
    tok,        \* <<>> or <<t>>: the token the client currently holds
    grant,      \* <<>> or <<g>>: what that token was issued for
    verdict,    \* outcome of the last verification of that token
    req,        \* the last HTTP request handled by the gateway
    resp,       \* its outcome
    calls,      \* the calls into the mounted sub-application made for req
    fin,        \* input of the last pure-function application
    fout,       \* its output
    registry    \* the tool registries of the process (tools/, mcp_instance.py)

vars == <<settings, now, tok, grant, verdict, req, resp, calls, fin, fout, registry>>

(***************************************************************************)
(* Bounds of the model.                                                    *)
(***************************************************************************)
MaxHdr == 3        \* atoms in an Authorization header value
MaxScopes == 2     \* entries in a scope list handed to an issuer
MaxTime == 3       \* last clock value
MaxQuery == 2      \* atoms in a query string
MaxScopeStr == 5   \* atoms in a scope claim handed to require_scopes
Ttl == 2           \* configured MCP_JWT_TTL_SECONDS (scaled down)

(***************************************************************************)
(* Strings.                                                                *)
(***************************************************************************)
SP == " "

Range(s) == {s[i] : i \in DOMAIN s}

SeqsUpTo(S, n) == UNION {[1..k -> S] : k \in 0..n}

\* Length of the leading run of non-whitespace atoms of s.
RECURSIVE WordLen(_)
WordLen(s) ==
    IF s = <<>> \/ Head(s) = SP THEN 0 ELSE 1 + WordLen(Tail(s))

\* Python str.split() with no argument: split on runs of whitespace and
\* drop empty strings.
RECURSIVE StrSplit(_)
StrSplit(s) ==
    IF s = <<>> THEN <<>>
    ELSE IF Head(s) = SP THEN StrSplit(Tail(s))
    ELSE LET n == WordLen(s)
         IN  <<SubSeq(s, 1, n)>> \o StrSplit(SubSeq(s, n + 1, Len(s)))

\* Python " ".join(list).
RECURSIVE StrJoin(_)
StrJoin(l) ==
    IF l = <<>> THEN <<>>
    ELSE IF Len(l) = 1 THEN l[1]
    ELSE l[1] \o <<SP>> \o StrJoin(Tail(l))

\* Python str.lower(), on the atoms the model uses.
LowerAtom(c) ==
    CASE c = "Bearer" -> "bearer"
      [] c = "BEARER" -> "bearer"
      [] c = "Token"  -> "token"
      [] c = "K2"     -> "k2"
      [] c = "Example" -> "example"
      [] OTHER        -> c

StrLower(s) == [i \in DOMAIN s |-> LowerAtom(s[i])]

\* Python str.startswith().
StartsWith(s, p) == Len(p) <= Len(s) /\ SubSeq(s, 1, Len(p)) = p

(***************************************************************************)
(* Settings (config.py).                                                   *)
(***************************************************************************)
ScopeA == <<"a">>
ScopeB == <<"b">>
ScopeC == <<"c">>

\* mcp_required_scopes is _split_csv(raw): a list of non-empty labels that
\* contain neither whitespace nor commas.
RequiredChoices == {<<>>, <<ScopeA>>, <<ScopeA, ScopeB>>, <<ScopeB, ScopeA>>}

MountMcp == <<"/", "mcp">>
MountGw  == <<"/", "gw">>

DefaultSettings ==
    [ mcp_enable_auth         |-> FALSE,
      mcp_mount_path          |-> MountMcp,
      mcp_required_scopes     |-> <<>>,
      mcp_api_keys_raw        |-> <<>>,
      web_allowed_domains_raw |-> <<>>,
      module                  |-> "config",
      mcp_jwt_secret          |-> "k1",
      mcp_jwt_issuer          |-> "iss1",
      mcp_jwt_audience        |-> "aud1",
      mcp_jwt_ttl_seconds     |-> Ttl ]

SettingsChoices ==
    { [DefaultSettings EXCEPT !.mcp_enable_auth = e,
                              !.mcp_mount_path = m,
                              !.mcp_required_scopes = r] :
        e \in BOOLEAN, m \in {MountMcp, MountGw}, r \in RequiredChoices }

\* auth.py reads settings.required_scopes_list.
required_scopes_list(s) == s.mcp_required_scopes

\* Length of the leading run of atoms of s that are not in seps.
RECURSIVE FieldLen(_, _)
FieldLen(s, seps) ==
    IF s = <<>> \/ Head(s) \in seps THEN 0 ELSE 1 + FieldLen(Tail(s), seps)

\* re.split on runs of separators, without the empty strings.
RECURSIVE SplitOn(_, _)
SplitOn(s, seps) ==
    IF s = <<>> THEN <<>>
    ELSE IF Head(s) \in seps THEN SplitOn(Tail(s), seps)
    ELSE LET n == FieldLen(s, seps)
         IN  <<SubSeq(s, 1, n)>> \o SplitOn(SubSeq(s, n + 1, Len(s)), seps)

\* config.py: _split_csv.  The separators are whitespace and the comma.
split_csv(value) == SplitOn(value, {SP, ","})

\* Python str.strip("."), on a string of atoms.
RECURSIVE StripDots(_)
StripDots(p) ==
    IF p # <<>> /\ Head(p) = "." THEN StripDots(Tail(p))
    ELSE IF p # <<>> /\ p[Len(p)] = "." THEN StripDots(SubSeq(p, 1, Len(p) - 1))
    ELSE p

\* core/config.py: _split_csv, which also lower-cases every part and strips
\* the dots at its ends.
split_csv_core(value) ==
    LET parts == SplitOn(value, {SP, ","})
    IN  [i \in DOMAIN parts |-> StripDots(StrLower(parts[i]))]

\* Settings.mcp_api_keys, of the Settings class of module s.module.
mcp_api_keys(s) ==
    IF s.module = "core.config" THEN split_csv_core(s.mcp_api_keys_raw)
    ELSE split_csv(s.mcp_api_keys_raw)

(***************************************************************************)
(* HTTPException and results.                                              *)
(***************************************************************************)
Absent == "<absent>"
AbsentInt == 0 - 1

NoClaims ==
    [sub |-> Absent, iss |-> Absent, aud |-> Absent,
     iat |-> AbsentInt, exp |-> AbsentInt, scope |-> <<>>]

HTTPException(code, text) ==
    [ok |-> FALSE, status |-> code, detail |-> text,
     token |-> <<>>, claims |-> NoClaims, missing |-> <<>>]

Returned(token, claims) ==
    [ok |-> TRUE, status |-> 0, detail |-> "",
     token |-> token, claims |-> claims, missing |-> <<>>]

(***************************************************************************)
(* security.py: _extract_bearer_token.                                     *)
(***************************************************************************)
\* The Python value None, where an Optional[str] is expected.
NoneStr == <<"<None>">>

extract_bearer_token_any_scheme(authorization) ==
    IF authorization = NoneStr \/ authorization = <<>>
    THEN HTTPException(401, "Missing Authorization header")
    ELSE LET parts == StrSplit(authorization)
         IN  IF Len(parts) # 2
             THEN HTTPException(401, "Invalid Authorization header")
             ELSE Returned(parts[2], NoClaims)

extract_bearer_token(authorization) ==
    IF authorization = NoneStr \/ authorization = <<>>
    THEN HTTPException(401, "Missing Authorization header")
    ELSE LET parts == StrSplit(authorization)
         IN  IF Len(parts) # 2 \/ StrLower(parts[1]) # <<"bearer">>
             THEN HTTPException(401, "Invalid Authorization header")
             ELSE Returned(parts[2], NoClaims)

(***************************************************************************)
(* JSON Web Tokens (the jwt package, as security.py and auth.py call it).  *)
(*                                                                         *)
(* A token on the wire is payload + signature segment.  The signature      *)
(* segment is the base64url text of HMAC(key, header.payload): `key` is    *)
(* the secret the MAC was computed with, `mac` is 0 while the MAC bytes    *)
(* are the ones that were computed and 1 once any of them was changed, and *)
(* `pad` is 0 while the unused trailing bits of the segment's last         *)
(* character are the canonical zero bits and 1 once they were changed      *)
(* (a 32-byte MAC is 43 characters, the last of which carries 4 data bits  *)
(* and 2 unused ones, which base64 decoding discards).                     *)
(***************************************************************************)
Encode(payload, key) == [payload |-> payload, key |-> key, mac |-> 0, pad |-> 0]

\* The text of the signature segment, as far as equality is concerned.
SignatureSegment(t) == <<t.key, t.mac, t.pad>>

\* base64url_decode of the signature segment: the trailing bits are dropped.
SignatureBytes(t) == <<t.key, t.mac>>

\* The atom "T" in a header is the text of the token the client holds; no
\* other word is a well-formed three-segment token.
ParseToken(word) == IF word = <<"T">> THEN tok ELSE <<>>

HasClaim(p, c) ==
    CASE c = "sub" -> p.sub # Absent
      [] c = "iss" -> p.iss # Absent
      [] c = "aud" -> p.aud # Absent
      [] c = "iat" -> p.iat # AbsentInt
      [] c = "exp" -> p.exp # AbsentInt

Decoded(claims) == [ok |-> TRUE, err |-> "", claims |-> claims]
DecodeError(e) == [ok |-> FALSE, err |-> e, claims |-> NoClaims]

\* jwt.decode(token, secret, audience=..., issuer=..., options={"require": ...})
\* at clock t: signature first, then the required claims, then exp, aud, iss.
jwt_decode_late_expiry(word, s, t, require) ==
    LET p == ParseToken(word) IN
    IF p = <<>> THEN DecodeError("DecodeError")
    ELSE IF SignatureBytes(p[1]) # <<s.mcp_jwt_secret, 0>>
         THEN DecodeError("InvalidSignatureError")
    ELSE IF \E c \in require \cup {"aud", "iss"} : ~HasClaim(p[1].payload, c)
         THEN DecodeError("MissingRequiredClaimError")
    ELSE IF p[1].payload.exp < t THEN DecodeError("ExpiredSignatureError")
    ELSE IF p[1].payload.aud # s.mcp_jwt_audience
         THEN DecodeError("InvalidAudienceError")
    ELSE IF p[1].payload.iss # s.mcp_jwt_issuer
         THEN DecodeError("InvalidIssuerError")
    ELSE Decoded(p[1].payload)

jwt_decode_unverified(word, s, t, require) ==
    LET p == ParseToken(word) IN
    IF p = <<>> THEN DecodeError("DecodeError")
    ELSE IF \E c \in require \cup {"aud", "iss"} : ~HasClaim(p[1].payload, c)
         THEN DecodeError("MissingRequiredClaimError")
    ELSE IF p[1].payload.exp <= t THEN DecodeError("ExpiredSignatureError")
    ELSE IF p[1].payload.aud # s.mcp_jwt_audience
         THEN DecodeError("InvalidAudienceError")
    ELSE IF p[1].payload.iss # s.mcp_jwt_issuer
         THEN DecodeError("InvalidIssuerError")
    ELSE Decoded(p[1].payload)

jwt_decode_any_issuer(word, s, t, require) ==
    LET p == ParseToken(word) IN
    IF p = <<>> THEN DecodeError("DecodeError")
    ELSE IF SignatureBytes(p[1]) # <<s.mcp_jwt_secret, 0>>
         THEN DecodeError("InvalidSignatureError")
    ELSE IF \E c \in require \cup {"aud"} : ~HasClaim(p[1].payload, c)
         THEN DecodeError("MissingRequiredClaimError")
    ELSE IF p[1].payload.exp <= t THEN DecodeError("ExpiredSignatureError")
    ELSE IF p[1].payload.aud # s.mcp_jwt_audience
         THEN DecodeError("InvalidAudienceError")
    ELSE Decoded(p[1].payload)

jwt_decode(word, s, t, require) ==
    LET p == ParseToken(word) IN
    IF p = <<>> THEN DecodeError("DecodeError")
    ELSE IF SignatureBytes(p[1]) # <<s.mcp_jwt_secret, 0>>
         THEN DecodeError("InvalidSignatureError")
    ELSE IF \E c \in require \cup {"aud", "iss"} : ~HasClaim(p[1].payload, c)
         THEN DecodeError("MissingRequiredClaimError")
    ELSE IF p[1].payload.exp <= t THEN DecodeError("ExpiredSignatureError")
    ELSE IF p[1].payload.aud # s.mcp_jwt_audience
         THEN DecodeError("InvalidAudienceError")
    ELSE IF p[1].payload.iss # s.mcp_jwt_issuer
         THEN DecodeError("InvalidIssuerError")
    ELSE Decoded(p[1].payload)

(***************************************************************************)
(* security.py: issue_jwt, verify_jwt_from_header, require_scopes.         *)
(***************************************************************************)
issue_jwt_scope_dropped(subject, scopes, s, t) ==
    Encode([sub |-> subject, iss |-> s.mcp_jwt_issuer, aud |-> s.mcp_jwt_audience,
            iat |-> t, exp |-> t + s.mcp_jwt_ttl_seconds,
            scope |-> IF scopes = <<>> THEN <<>> ELSE scopes[1]],
           s.mcp_jwt_secret)

issue_jwt(subject, scopes, s, t) ==
    Encode([sub |-> subject, iss |-> s.mcp_jwt_issuer, aud |-> s.mcp_jwt_audience,
            iat |-> t, exp |-> t + s.mcp_jwt_ttl_seconds,
            scope |-> StrJoin(scopes)],
           s.mcp_jwt_secret)

verify_jwt_from_header(authorization, s, t) ==
    LET e == extract_bearer_token(authorization) IN
    IF ~e.ok THEN e
    ELSE LET d == jwt_decode(e.token, s, t, {"exp", "iat", "iss", "aud", "sub"})
         IN  IF d.ok THEN Returned(e.token, d.claims)
             ELSE IF d.err = "ExpiredSignatureError"
                  THEN HTTPException(401, "Token expired")
             ELSE HTTPException(401, "Invalid token")

(***************************************************************************)
(* The value of a scope claim.  A JSON string is its atoms; a JSON list is *)
(* the atom "<list>" followed by its elements, each closed by "<,>"; a     *)
(* number is "<int>" and its digits; an object is "<dict>" and its         *)
(* content; an absent claim (or null) is None.                             *)
(***************************************************************************)
RECURSIVE Flatten(_)
Flatten(l) == IF l = <<>> THEN <<>> ELSE Head(l) \o <<"<,>">> \o Flatten(Tail(l))

ListValue(elems) == <<"<list>">> \o Flatten(elems)

RECURSIVE Unflatten(_)
Unflatten(x) ==
    IF x = <<>> THEN <<>>
    ELSE LET n == FieldLen(x, {"<,>"})
         IN  <<SubSeq(x, 1, n)>> \o Unflatten(SubSeq(x, n + 2, Len(x)))

IsList(v) == v # <<>> /\ Head(v) = "<list>"
IsOther(v) == v # <<>> /\ Head(v) \in {"<int>", "<dict>", "<None>"}
IsStr(v) == ~IsList(v) /\ ~IsOther(v)

ListElems(v) == Unflatten(Tail(v))

\* Python truthiness: "", [], 0, {} and None are false.
Truthy(v) ==
    IF IsList(v) THEN ListElems(v) # <<>>
    ELSE IF IsOther(v) THEN v \notin {NoneStr, <<"<int>", "0">>, <<"<dict>">>}
    ELSE v # <<>>

\* ", ".join(repr(e) for e in elems)
RECURSIVE ReprJoin(_)
ReprJoin(elems) ==
    IF elems = <<>> THEN <<>>
    ELSE <<"'">> \o Head(elems) \o <<"'">>
            \o (IF Len(elems) = 1 THEN <<>> ELSE <<",", SP>> \o ReprJoin(Tail(elems)))

\* Python str(v).
PyStr(v) ==
    IF IsList(v) THEN <<"[">> \o ReprJoin(ListElems(v)) \o <<"]">>
    ELSE IF v = NoneStr THEN <<"None">>
    ELSE IF Head(v) = "<int>" THEN Tail(v)
    ELSE IF Head(v) = "<dict>" THEN <<"{">> \o Tail(v) \o <<"}">>
    ELSE v

\* security.py: scope_str = str(claims.get("scope") or "") and
\* token_scopes = set([s for s in scope_str.split() if s]).
scope_str(claims) == IF IsStr(claims.scope) THEN claims.scope
                     ELSE IF Truthy(claims.scope) THEN PyStr(claims.scope) ELSE <<>>

token_scopes(claims) == Range(StrSplit(scope_str(claims)))

\* auth.py: raw_scopes = payload.get("scope") or ... or "", then a string is
\* split, a list keeps its true elements, anything else gives [].
parse_scopes(raw) ==
    LET raw_scopes == IF Truthy(raw) THEN raw ELSE <<>> IN
    IF IsStr(raw_scopes) THEN StrSplit(raw_scopes)
    ELSE IF IsList(raw_scopes)
         THEN SelectSeq(ListElems(raw_scopes), LAMBDA e : e # <<>>)
    ELSE <<>>

\* sorted(missing), for the labels the model uses.
ScopeOrder == <<ScopeA, ScopeB, ScopeC>>
Sorted(S) == SelectSeq(ScopeOrder, LAMBDA w : w \in S)

Forbidden(missing) ==
    [ok |-> FALSE, status |-> 403, detail |-> "Missing scopes",
     token |-> <<>>, claims |-> NoClaims, missing |-> Sorted(missing)]

require_scopes_any(claims, s) ==
    LET required == Range(s.mcp_required_scopes)
    IN  IF required = {} \/ required \cap token_scopes(claims) # {}
        THEN Returned(<<>>, claims)
        ELSE Forbidden(required \ token_scopes(claims))

require_scopes(claims, s) ==
    LET required == Range(s.mcp_required_scopes) IN
    IF required = {} THEN Returned(<<>>, claims)
    ELSE LET missing == required \ token_scopes(claims)
         IN  IF missing # {} THEN Forbidden(missing)
             ELSE Returned(<<>>, claims)

(***************************************************************************)
(* auth.py: JwtTokenVerifier.verify_token, issue_jwt_for_client.           *)
(***************************************************************************)
NoAccessToken == [ok |-> FALSE, client_id |-> "", scopes |-> <<>>, expires_at |-> 0]

JwtToken(sub, scopes, exp) ==
    [ok |-> TRUE, client_id |-> sub, scopes |-> scopes, expires_at |-> exp]

\* "if required and not set(required).issubset(set(scopes)): return None"
required_scopes_met(required, scopes) ==
    ~(required # <<>> /\ ~(Range(required) \subseteq Range(scopes)))

verify_token(word, s, t) ==
    LET d == jwt_decode(word, s, t, {"exp", "iat", "sub"}) IN
    IF ~d.ok THEN NoAccessToken
    ELSE LET scopes == parse_scopes(d.claims.scope)
             required == required_scopes_list(s)
         IN  IF d.claims.sub = "" \/ d.claims.exp <= t THEN NoAccessToken
             ELSE IF ~required_scopes_met(required, scopes) THEN NoAccessToken
             ELSE JwtToken(d.claims.sub, scopes, d.claims.exp)

\* ttl_seconds is AbsentInt when the caller passes None (the default);
\* "ttl_seconds or settings.mcp_jwt_ttl_seconds" also replaces a 0.
issue_jwt_for_client(client_id, scopes, ttl_seconds, s, t) ==
    LET ttl == IF ttl_seconds = AbsentInt \/ ttl_seconds = 0
               THEN s.mcp_jwt_ttl_seconds ELSE ttl_seconds
    IN  Encode([sub |-> client_id, iat |-> t, exp |-> t + ttl,
                iss |-> s.mcp_jwt_issuer, aud |-> s.mcp_jwt_audience,
                scope |-> StrJoin(scopes)],
               s.mcp_jwt_secret)

(***************************************************************************)
(* middleware.py: McpAuthGateMiddleware.__call__.  The outcome is either   *)
(* "call self.app" (ok) or the HTTPException that verify_jwt_from_header   *)
(* or require_scopes raised; the method has no except clause, so the       *)
(* exception leaves __call__.  `auth` tells whether the Authorization      *)
(* header was examined.                                                    *)
(***************************************************************************)
GateOutcome(checked, e) == [ok |-> e.ok, checked |-> checked, exc |-> e]

\* scope headers -> dict -> .get(b"authorization", b"").decode(): an absent
\* header reads as the empty string.
HeaderOrEmpty(r) == IF r.authorization = NoneStr THEN <<>> ELSE r.authorization

AuthCheck(authorization, s, t) ==
    LET claims == verify_jwt_from_header(authorization, s, t)
    IN  IF claims.ok THEN require_scopes(claims.claims, s) ELSE claims

\* The gate without its path condition.
McpAuthGateMiddleware_every_path(r, s, t) ==
    IF r.type # "http" THEN GateOutcome(FALSE, Returned(<<>>, NoClaims))
    ELSE IF s.mcp_enable_auth
         THEN GateOutcome(TRUE, AuthCheck(HeaderOrEmpty(r), s, t))
         ELSE GateOutcome(FALSE, Returned(<<>>, NoClaims))

McpAuthGateMiddleware(r, s, t) ==
    IF r.type # "http" THEN GateOutcome(FALSE, Returned(<<>>, NoClaims))
    ELSE IF s.mcp_enable_auth /\ StartsWith(r.path, s.mcp_mount_path)
         THEN GateOutcome(TRUE, AuthCheck(HeaderOrEmpty(r), s, t))
         ELSE GateOutcome(FALSE, Returned(<<>>, NoClaims))

(***************************************************************************)
(* app.py: create_app.  Routing, the mounts, and the /messages alias.      *)
(***************************************************************************)
\* Python str.rstrip("/").
RECURSIVE RStripSlash(_)
RStripSlash(p) ==
    IF p # <<>> /\ p[Len(p)] = "/" THEN RStripSlash(SubSeq(p, 1, Len(p) - 1)) ELSE p

\* A Mount at prefix m serves m itself and everything below m + "/".
MountMatches(path, m) ==
    LET root == RStripSlash(m)
    IN  path = root \/ StartsWith(path, root \o <<"/">>)

PathHealth   == <<"/", "health">>
PathMessages == <<"/", "messages">>

\* The routes in the order create_app adds them.
Route(r, s) ==
    IF r.type = "http" /\ r.method = "GET" /\ r.path = PathHealth THEN "health"
    ELSE IF MountMatches(r.path, s.mcp_mount_path) THEN "mount"
    ELSE IF RStripSlash(s.mcp_mount_path) # MountMcp /\ MountMatches(r.path, MountMcp)
         THEN "compat_mount"
    ELSE IF r.type = "http" /\ r.method = "POST" /\ r.path = PathMessages
         THEN "messages"
    ELSE "not_found"

\* "if settings.mcp_enable_auth: ... verify_jwt_from_header ... require_scopes"
\* in mcp_messages_alias.
alias_auth_always(r, s, t) ==
    GateOutcome(TRUE, AuthCheck(HeaderOrEmpty(r), s, t))

alias_auth(r, s, t) ==
    IF s.mcp_enable_auth
    THEN GateOutcome(TRUE, AuthCheck(HeaderOrEmpty(r), s, t))
    ELSE GateOutcome(FALSE, Returned(<<>>, NoClaims))

\* upstream_path = request.url.path, plus "?" + query when there is a query.
upstream_path_without_query(r) == r.path

upstream_path(r) ==
    IF r.query # <<>> THEN r.path \o <<"?">> \o r.query ELSE r.path

\* httpx parses the target it is given: the query is what follows the
\* first "?".
RECURSIVE UrlPathLen(_)
UrlPathLen(u) == IF u = <<>> \/ Head(u) = "?" THEN 0 ELSE 1 + UrlPathLen(Tail(u))

UrlPath(u) == SubSeq(u, 1, UrlPathLen(u))
UrlQuery(u) == SubSeq(u, UrlPathLen(u) + 2, Len(u))

\* One call into the sub-application.
SubAppCall(via, method, path, query, body) ==
    [via |-> via, method |-> method, path |-> path, query |-> query, body |-> body]

Answer(status, route, auth, raised, inner, detail) ==
    [status |-> status, route |-> route, auth |-> auth, raised |-> raised,
     inner |-> inner, detail |-> detail]

AuthWord(g) == IF ~g.checked THEN "none" ELSE IF g.ok THEN "pass" ELSE "reject"

\* The calls a request makes into the sub-application once it is routed.
RoutedCalls(r, s, t) ==
    LET route == Route(r, s) IN
    IF route \in {"mount", "compat_mount"}
    THEN <<SubAppCall(route, r.method, r.path, r.query, r.body)>>
    ELSE IF route = "messages" /\ alias_auth(r, s, t).ok
         THEN LET u == upstream_path(r)
              IN  <<SubAppCall("alias", "POST", UrlPath(u), UrlQuery(u), r.body)>>
    ELSE <<>>

\* The answer of the router (inside ExceptionMiddleware, which turns an
\* HTTPException raised by a route into a response with its status code).
Routed(r, s, t, gate) ==
    LET route == Route(r, s) IN
    IF route = "health" THEN Answer(200, route, gate, 0, TRUE, "")
    ELSE IF route \in {"mount", "compat_mount"}
         THEN Answer(200, route, gate, 0, TRUE, "")
    ELSE IF route = "messages"
         THEN LET a == alias_auth(r, s, t) IN
              IF ~a.ok
              THEN Answer(a.exc.status, route, "reject", 0, TRUE, a.exc.detail)
              ELSE IF r.upstream = "raise"
                   THEN Answer(500, route, AuthWord(a), 0, TRUE, "")
              ELSE Answer(202, route, AuthWord(a), 0, TRUE, "")
    ELSE Answer(404, route, gate, 0, TRUE, "Not Found")

\* The whole application: the gate is installed (outside the router and
\* its exception handlers) only when auth is enabled; an exception that
\* leaves the gate reaches the server's error handler, which answers 500.
App(r, s, t) ==
    LET g == IF s.mcp_enable_auth THEN McpAuthGateMiddleware(r, s, t)
             ELSE GateOutcome(FALSE, Returned(<<>>, NoClaims))
    IN  IF ~g.ok
        THEN Answer(500, "gate", "reject", g.exc.status, FALSE, g.exc.detail)
        ELSE Routed(r, s, t, AuthWord(g))

AppCalls(r, s, t) ==
    LET g == IF s.mcp_enable_auth THEN McpAuthGateMiddleware(r, s, t)
             ELSE GateOutcome(FALSE, Returned(<<>>, NoClaims))
    IN  IF ~g.ok THEN <<>> ELSE RoutedCalls(r, s, t)

(***************************************************************************)
(* Idle values of the variables a specification does not use.              *)
(***************************************************************************)
NoVerdict ==
    [fn |-> "none", at |-> 0, ok |-> FALSE, status |-> 0, detail |-> "",
     sub |-> "", scopes |-> {}, allowed |-> FALSE, missing |-> <<>>]

NoReq ==
    [kind |-> "none", type |-> "http", method |-> "GET", path |-> <<>>,
     query |-> <<>>, authorization |-> <<"<None>">>, body |-> "",
     upstream |-> "none"]

NoResp ==
    [status |-> 0, route |-> "none", auth |-> "none", raised |-> 0,
     inner |-> FALSE, detail |-> ""]
NoFin == [fn |-> "none", authorization |-> <<>>, required |-> <<>>, scope |-> <<>>]
NoFout == [HTTPException(0, "") EXCEPT !.ok = FALSE]
NoRegistry ==
    [phase |-> "none", tool_registry |-> <<>>, tools |-> <<>>, mcp_tools |-> <<>>,
     tool_by_name |-> <<>>, mcp_calls |-> <<>>, calls |-> 0]

(***************************************************************************)
(* SpecJwt: the life of one token.  A client obtains a token from either   *)
(* issuer, may alter its signature segment, and presents it to either      *)
(* verifier while the clock advances.  Issuance and verification keep no   *)
(* state, so tokens do not interact and a behaviour follows a single one.  *)
(***************************************************************************)
Subjects == {"agent1", ""}

\* Entries a caller may put in the scope list: two labels, the empty
\* string, and a string with whitespace inside.
ScopeEntries == {ScopeA, ScopeB, <<>>, <<"a", SP, "b">>}

ScopeLists == SeqsUpTo(ScopeEntries, MaxScopes)

BearerT == <<"Bearer", SP, "T">>

InitJwt ==
    /\ settings \in {s \in SettingsChoices :
                        /\ s.mcp_enable_auth
                        /\ s.mcp_mount_path = MountMcp
                        /\ s.mcp_required_scopes \in {<<>>, <<ScopeA>>}}
    /\ now = 0
    /\ tok = <<>>
    /\ grant = <<>>
    /\ verdict = NoVerdict
    /\ req = NoReq
    /\ resp = NoResp
    /\ calls = <<>>
    /\ fin = NoFin
    /\ fout = NoFout
    /\ registry = NoRegistry

IssueJwt ==
    /\ tok = <<>>
    /\ \E subject \in Subjects, scopes \in ScopeLists :
        /\ tok' = <<issue_jwt(subject, scopes, settings, now)>>
        /\ grant' = <<[subject |-> subject, scopes |-> scopes]>>
        /\ verdict' = NoVerdict
        /\ UNCHANGED <<registry, settings, now, req, resp, calls, fin, fout>>

IssueJwtForClient ==
    /\ tok = <<>>
    /\ \E client_id \in Subjects, scopes \in ScopeLists, ttl_seconds \in {0, 1} :
        /\ tok' = <<issue_jwt_for_client(client_id, scopes, ttl_seconds, settings, now)>>
        /\ grant' = <<[subject |-> client_id, scopes |-> scopes]>>
        /\ verdict' = NoVerdict
        /\ UNCHANGED <<registry, settings, now, req, resp, calls, fin, fout>>

\* The client rewrites the signature segment of the token it holds.
TamperSignature ==
    /\ tok # <<>>
    /\ \E m \in {0, 1}, p \in {0, 1} :
        /\ <<m, p>> # <<tok[1].mac, tok[1].pad>>
        /\ tok' = <<[tok[1] EXCEPT !.mac = m, !.pad = p]>>
    /\ verdict' = NoVerdict
    /\ UNCHANGED <<registry, settings, now, grant, req, resp, calls, fin, fout>>

\* verify_jwt_from_header, then require_scopes on the claims it returns
\* (the two calls the gate and the alias make).
VerifyHeader ==
    /\ tok # <<>>
    /\ LET v == verify_jwt_from_header(BearerT, settings, now)
           r == IF v.ok THEN require_scopes(v.claims, settings) ELSE v
       IN  verdict' =
             [fn |-> "verify_jwt_from_header", at |-> now, ok |-> v.ok,
              status |-> IF v.ok THEN r.status ELSE v.status,
              detail |-> IF v.ok THEN r.detail ELSE v.detail,
              sub |-> IF v.ok THEN v.claims.sub ELSE "",
              scopes |-> IF v.ok THEN Range(StrSplit(v.claims.scope)) ELSE {},
              allowed |-> r.ok, missing |-> r.missing]
    /\ UNCHANGED <<registry, settings, now, tok, grant, req, resp, calls, fin, fout>>

VerifyToken ==
    /\ tok # <<>>
    /\ LET a == verify_token(<<"T">>, settings, now)
       IN  verdict' =
             [fn |-> "verify_token", at |-> now, ok |-> a.ok,
              status |-> 0, detail |-> "",
              sub |-> a.client_id, scopes |-> Range(a.scopes),
              allowed |-> a.ok, missing |-> <<>>]
    /\ UNCHANGED <<registry, settings, now, tok, grant, req, resp, calls, fin, fout>>

\* The clock only moves forward.
Tick ==
    /\ now < MaxTime
    /\ req = NoReq
    /\ now' = now + 1
    /\ UNCHANGED <<registry, settings, tok, grant, verdict, req, resp, calls, fin, fout>>

NextJwt ==
    \/ IssueJwt
    \/ IssueJwtForClient
    \/ TamperSignature
    \/ VerifyHeader
    \/ VerifyToken
    \/ Tick

SpecJwt == InitJwt /\ [][NextJwt]_vars

(***************************************************************************)
(* Properties of SpecJwt.                                                  *)
(***************************************************************************)
\* A scope label proper: non-empty and free of whitespace.
CleanLabel(l) == l # <<>> /\ SP \notin Range(l)

CleanGrant == grant # <<>> /\ \A i \in DOMAIN grant[1].scopes : CleanLabel(grant[1].scopes[i])

\* The token is exactly what the issuer returned.
AsIssued ==
    /\ tok # <<>>
    /\ SignatureSegment(tok[1]) = SignatureSegment(Encode(tok[1].payload, settings.mcp_jwt_secret))

\* The last verification was of the token as issued, at the time of issue.
FreshVerdict ==
    /\ verdict.fn # "none"
    /\ AsIssued
    /\ verdict.at = tok[1].payload.iat

GrantedScopes == Range(grant[1].scopes)
RequiredScopes == Range(settings.mcp_required_scopes)

VerifiedPastExpiry ==
    /\ verdict.fn # "none"
    /\ tok # <<>>
    /\ verdict.at >= tok[1].payload.exp

\* C5: a verification at any time now >= exp fails (401, and "Token expired"
\* when nothing else is wrong with the token), and after a verification
\* that failed for expiry no verification of the same token succeeds.
C5_ExpiredStaysExpired ==
    /\ [](VerifiedPastExpiry =>
            /\ ~verdict.ok
            /\ verdict.fn = "verify_jwt_from_header" => verdict.status = 401
            /\ (verdict.fn = "verify_jwt_from_header" /\ tok[1].mac = 0)
                  => verdict.detail = "Token expired")
    /\ [][(VerifiedPastExpiry /\ tok' = tok) => ~verdict'.ok]_vars

C5_Witness ==
    /\ VerifiedPastExpiry
    /\ AsIssued
    /\ verdict.at = tok[1].payload.exp
    /\ verdict.fn = "verify_jwt_from_header"
    /\ now > verdict.at

\* The signature segment differs from the one the issuer produced.
SegmentChanged ==
    /\ tok # <<>>
    /\ SignatureSegment(tok[1]) # SignatureSegment(Encode(tok[1].payload, settings.mcp_jwt_secret))

\* C6 as stated: a token obtained from a valid token by changing its
\* signature segment is never accepted.
C6_ChangedSegmentRejected ==
    (verdict.fn # "none" /\ SegmentChanged) => ~verdict.ok

\* C6 amended: a token whose signature segment was changed so that it
\* decodes to different signature bytes is never accepted (401 "Invalid
\* token" from verify_jwt_from_header, no principal from verify_token).
C6_ChangedSignatureRejected ==
    (verdict.fn # "none" /\ tok # <<>> /\ tok[1].mac # 0) =>
        /\ ~verdict.ok
        /\ verdict.fn = "verify_jwt_from_header" =>
              (verdict.status = 401 /\ verdict.detail = "Invalid token")

C6_Witness ==
    /\ verdict.fn = "verify_token"
    /\ tok # <<>>
    /\ tok[1].mac # 0
    /\ verdict.at < tok[1].payload.exp
    /\ CleanGrant
    /\ grant[1].subject # ""
    /\ RequiredScopes \subseteq GrantedScopes

(***************************************************************************)
(* SpecPure: the two pure checks of security.py, each applied once to      *)
(* every input within the bounds.                                          *)
(***************************************************************************)
HeaderAtoms == {SP, "Bearer", "bearer", "BEARER", "Token", "T"}

HeaderValues == SeqsUpTo(HeaderAtoms, MaxHdr) \cup {NoneStr}

ScopeClaims == SeqsUpTo({"a", "b", "c", SP}, MaxScopeStr)

InitPure ==
    /\ settings = DefaultSettings
    /\ now = 0
    /\ tok = <<>>
    /\ grant = <<>>
    /\ verdict = NoVerdict
    /\ req = NoReq
    /\ resp = NoResp
    /\ calls = <<>>
    /\ fin = NoFin
    /\ fout = NoFout
    /\ registry = NoRegistry

ExtractBearerToken ==
    /\ fin = NoFin
    /\ \E authorization \in HeaderValues :
        /\ fin' = [NoFin EXCEPT !.fn = "_extract_bearer_token",
                                !.authorization = authorization]
        /\ fout' = extract_bearer_token(authorization)
        /\ UNCHANGED <<registry, settings, now, tok, grant, verdict, req, resp, calls>>

\* require_scopes on claims whose scope claim is `scope`, under settings
\* whose required scopes are `required`; the detail field of the outcome
\* records whether auth.py's subset test passes on the same input.
RequireScopes ==
    /\ fin = NoFin
    /\ \E required \in RequiredChoices, scope \in ScopeClaims :
        /\ fin' = [NoFin EXCEPT !.fn = "require_scopes",
                                !.required = required, !.scope = scope]
        /\ fout' = [require_scopes([NoClaims EXCEPT !.scope = scope],
                        [DefaultSettings EXCEPT !.mcp_required_scopes = required])
                    EXCEPT !.detail =
                        IF required_scopes_met(required, StrSplit(scope))
                        THEN "met" ELSE "not met"]
        /\ UNCHANGED <<registry, settings, now, tok, grant, verdict, req, resp, calls>>

NextPure == ExtractBearerToken \/ RequireScopes

SpecPure == InitPure /\ [][NextPure]_vars

(***************************************************************************)
(* Properties of SpecPure.                                                 *)
(***************************************************************************)
\* s[a..b] is a maximal run of non-whitespace atoms of s.
IsWordAt(s, a, b) ==
    /\ a <= b
    /\ \A i \in a..b : s[i] # SP
    /\ a = 1 \/ s[a - 1] = SP
    /\ b = Len(s) \/ s[b + 1] = SP

\* The scope set S a scope claim denotes: its whitespace-delimited labels.
ScopeSetOf(s) ==
    {SubSeq(s, a, b) : <<a, b>> \in {x \in (DOMAIN s) \X (DOMAIN s) : IsWordAt(s, x[1], x[2])}}

\* C3: require_scopes allows iff R is a subset of S (R = {} always allows);
\* when it denies it raises 403 naming exactly the scopes of R \ S, each
\* once.  auth.py's subset test agrees.
C3_AllowIffSubset ==
    fin.fn = "require_scopes" =>
        LET R == Range(fin.required)
            S == ScopeSetOf(fin.scope)
        IN  /\ fout.ok <=> R \subseteq S
            /\ R = {} => fout.ok
            /\ ~fout.ok =>
                 /\ fout.status = 403
                 /\ Range(fout.missing) = R \ S
                 /\ Len(fout.missing) = Cardinality(R \ S)
            /\ (fout.detail = "met") <=> R \subseteq S

C3_Witness ==
    /\ fin.fn = "require_scopes"
    /\ Range(fin.required) = {ScopeA, ScopeB}
    /\ ScopeSetOf(fin.scope) = {ScopeA, ScopeC}
    /\ ~fout.ok
    /\ fout.missing = <<ScopeB>>

\* h consists of exactly two whitespace-separated parts, at a..b and c..d.
TwoPartsAt(h, a, b, c, d) ==
    /\ IsWordAt(h, a, b)
    /\ IsWordAt(h, c, d)
    /\ b < c
    /\ \A i \in DOMAIN h : (i \in a..b \/ i \in c..d \/ h[i] = SP)

TwoParts(h) ==
    {x \in (DOMAIN h) \X (DOMAIN h) \X (DOMAIN h) \X (DOMAIN h) :
        TwoPartsAt(h, x[1], x[2], x[3], x[4])}

IsBearerScheme(w) == w \in {<<"Bearer">>, <<"bearer">>, <<"BEARER">>}

GatewaySettings ==
    {s \in SettingsChoices :
        s.mcp_required_scopes \in {<<>>, <<ScopeA>>, <<ScopeA, ScopeB>>}}

ClientHeaders ==
    { NoneStr, <<>>, <<"Bearer", SP, "T">>, <<"bearer", SP, "T">>,
      <<"Token", SP, "T">>, <<"Bearer">> }

RequestPaths ==
    { <<"/", "mcp", "/", "sse">>, <<"/", "gw", "/", "sse">>, <<"/", "mcp", "x">>,
      PathHealth, PathMessages }

Queries == SeqsUpTo({"sid=42", "?"}, MaxQuery)

Bodies == {"", "{json}"}

Init ==
    /\ settings \in GatewaySettings
    /\ now = 0
    /\ tok = <<>>
    /\ grant = <<>>
    /\ verdict = NoVerdict
    /\ req = NoReq
    /\ resp = NoResp
    /\ calls = <<>>
    /\ fin = NoFin
    /\ fout = NoFout
    /\ registry = NoRegistry

\* The client is handed a token for subject agent1.
ObtainToken ==
    /\ tok = <<>>
    /\ req = NoReq
    /\ \E scopes \in {<<>>, <<ScopeA>>} :
        /\ tok' = <<issue_jwt("agent1", scopes, settings, now)>>
        /\ grant' = <<[subject |-> "agent1", scopes |-> scopes]>>
        /\ UNCHANGED <<registry, settings, now, verdict, req, resp, calls, fin, fout>>

Serve(r) ==
    /\ req = NoReq
    /\ req' = r
    /\ resp' = App(r, settings, now)
    /\ calls' = AppCalls(r, settings, now)
    /\ UNCHANGED <<registry, settings, now, tok, grant, verdict, fin, fout>>

\* A GET (or a websocket handshake) on any path.
GetRequest ==
    /\ req = NoReq
    /\ \E path \in RequestPaths, authorization \in ClientHeaders,
          type \in {"http", "websocket"} :
           Serve([NoReq EXCEPT !.kind = "request", !.type = type, !.path = path,
                               !.authorization = authorization])

\* POST /messages?query with a body; `upstream` is how the sub-application
\* behaves if the request is forwarded to it.
PostMessages ==
    /\ req = NoReq
    /\ \E authorization \in ClientHeaders, query \in Queries, body \in Bodies,
          upstream \in {"accept", "raise"} :
           Serve([NoReq EXCEPT !.kind = "request", !.method = "POST",
                               !.path = PathMessages, !.query = query,
                               !.authorization = authorization, !.body = body,
                               !.upstream = upstream])

Next ==
    \/ ObtainToken
    \/ Tick
    \/ GetRequest
    \/ PostMessages

Spec == Init /\ [][Next]_vars

(***************************************************************************)
(* Properties of Spec.                                                     *)
(***************************************************************************)
Served == req.kind = "request"

NoBearerToken == req.authorization \in {NoneStr, <<>>}

UnderProtectedPrefix == StartsWith(req.path, settings.mcp_mount_path)

IsPostMessages == req.method = "POST" /\ req.path = PathMessages

\* C1: with auth enabled, a request without a bearer token gets a 401 both
\* on a path under the protected prefix and on POST /messages, and the
\* sub-application is not invoked.
C1_NoTokenIs401 ==
    (Served /\ req.type = "http" /\ settings.mcp_enable_auth /\ NoBearerToken
        /\ (UnderProtectedPrefix \/ IsPostMessages)) =>
        (resp.status = 401 /\ calls = <<>>)

\* C2: whenever the gate rejects a request under the protected prefix the
\* response status is 401 (verification failure) or 403 (scope failure),
\* never another code, and the failure does not leave the gate as an
\* unhandled exception.
C2_GateRejectsWith401Or403 ==
    (Served /\ resp.route = "gate") =>
        /\ resp.status \in {401, 403}
        /\ resp.raised = 0

\* C8: with auth disabled every request is handed to the inner application:
\* no Authorization header is examined and nothing is rejected with 401 or
\* 403, whatever the path or header; a request routed to a mount or to the
\* alias reaches the sub-application.
C8_AuthDisabledPassesThrough ==
    (Served /\ ~settings.mcp_enable_auth) =>
        /\ resp.auth = "none"
        /\ resp.inner
        /\ resp.status \notin {401, 403}
        /\ resp.route \in {"mount", "compat_mount", "messages"} => Len(calls) = 1

C8_Witness ==
    /\ Served
    /\ ~settings.mcp_enable_auth
    /\ IsPostMessages
    /\ req.authorization = <<"Token", SP, "T">>
    /\ Len(calls) = 1

\* What the gate decides for the header of req on a path under the
\* protected prefix: 0 for allow, else the status the client receives.
Decision(a) == IF a.auth = "reject" THEN a.status ELSE 0

GateDecisionForSameHeader ==
    Decision(App([req EXCEPT !.method = "GET",
                             !.path = settings.mcp_mount_path \o <<"/", "sse">>,
                             !.query = <<>>],
                 settings, now))

\* C9: with auth enabled the /messages alias reaches the same decision
\* (allow, 401 or 403) as the gate reaches for the same Authorization header
\* on a protected path, and forwards nothing on a rejection.
C9_AliasDecidesAsGate ==
    (Served /\ settings.mcp_enable_auth /\ resp.route = "messages") =>
        /\ Decision(resp) = GateDecisionForSameHeader
        /\ Decision(resp) # 0 => calls = <<>>

\* C10: with auth disabled a POST to /messages with query q and body b
\* results in exactly one call into the sub-application, with the same
\* method, the query string q and the body b.
C10_ForwardPreservesQueryAndBody ==
    (Served /\ ~settings.mcp_enable_auth /\ IsPostMessages) =>
        /\ Len(calls) = 1
        /\ calls[1].method = req.method
        /\ calls[1].query = req.query
        /\ calls[1].body = req.body

C10_Witness ==
    /\ Served
    /\ ~settings.mcp_enable_auth
    /\ IsPostMessages
    /\ req.query = <<"sid=42">>
    /\ req.body = "{json}"
    /\ Len(calls) = 1
    /\ calls[1].via = "alias"

\* C13: when the in-process call from the /messages alias into the
\* sub-application fails, the alias answers 502 (not the 401/403 of an auth
\* failure, not any other code) and has made exactly one call (no retry).
C13_UpstreamFailureIs502 ==
    (Served /\ resp.route = "messages" /\ resp.auth # "reject"
        /\ req.upstream = "raise") =>
        /\ resp.status = 502
        /\ Len(calls) = 1

(***************************************************************************)
(* SpecProxy: the forwarding part of mcp_messages_alias (app.py), with     *)
(* auth disabled.  A header is a name and a value; a header list keeps the *)
(* order and the repetitions of the wire.  The handler has one await       *)
(* point, the in-process POST, so it is two steps: up to the call, and     *)
(* from the sub-application's response to the alias's own response.        *)
(***************************************************************************)
MaxHeaders == 2    \* headers in a request or in an upstream response

Header(name, value) == [name |-> name, value |-> value]

HeaderNames(h) == {h[i].name : i \in DOMAIN h}

\* str.lower() on the header names the model uses.
HeaderLower(name) ==
    CASE name = "Set-Cookie" -> "set-cookie"
      [] name = "Connection" -> "connection"
      [] OTHER               -> name

hop_by_hop ==
    {"connection", "keep-alive", "proxy-authenticate", "proxy-authorization",
     "te", "trailers", "transfer-encoding", "upgrade"}

\* dict(request.headers): one entry per name, holding the value the mapping
\* returns for that name, which is the first one.
RECURSIVE HeadersDict(_)
HeadersDict(h) ==
    IF h = <<>> THEN <<>>
    ELSE LET front == HeadersDict(SubSeq(h, 1, Len(h) - 1))
             last  == h[Len(h)]
         IN  IF last.name \in HeaderNames(front) THEN front ELSE Append(front, last)

\* headers = dict(request.headers); headers.pop("host", None)
alias_request_headers(inbound) ==
    SelectSeq(HeadersDict(inbound), LAMBDA x : x.name # "host")

\* The headers httpx sends for client.post(..., headers=headers) on
\* base_url "http://mcp": the Host of the URL, the client's default headers
\* that the caller did not override, and the caller's headers.
HttpxDefaults == <<Header("accept", <<"*/*">>), Header("connection", <<"keep-alive">>)>>

httpx_request_headers(headers) ==
    <<Header("host", <<"mcp">>)>>
        \o SelectSeq(HttpxDefaults, LAMBDA d : d.name \notin HeaderNames(headers))
        \o headers

\* upstream.headers.items(): names in lower case, the values of a repeated
\* name folded into one value with ", ".
RECURSIVE HeaderItems(_)
HeaderItems(h) ==
    IF h = <<>> THEN <<>>
    ELSE LET front == HeaderItems(SubSeq(h, 1, Len(h) - 1))
             last  == Header(HeaderLower(h[Len(h)].name), h[Len(h)].value)
         IN  IF last.name \in HeaderNames(front)
             THEN [i \in DOMAIN front |->
                     IF front[i].name = last.name
                     THEN Header(last.name, front[i].value \o <<", ">> \o last.value)
                     ELSE front[i]]
             ELSE Append(front, last)

\* out_headers = {k: v for k, v in upstream.headers.items()
\*                if k.lower() not in hop_by_hop}
out_headers(upstream_headers) ==
    SelectSeq(HeaderItems(upstream_headers),
              LAMBDA x : HeaderLower(x.name) \notin hop_by_hop)

ContentLength(body) == IF body = "" THEN <<"0">> ELSE <<"6">>

\* Response(content=..., status_code=..., headers=out_headers): the given
\* headers, and a content-length when there is none and the status allows
\* a body.
alias_response(status, body, headers) ==
    [status  |-> status,
     body    |-> body,
     headers |-> IF "content-length" \notin HeaderNames(headers)
                    /\ ~(status < 200 \/ status \in {204, 304})
                 THEN Append(headers, Header("content-length", ContentLength(body)))
                 ELSE headers]

InboundHeaders ==
    { Header("host", <<"gw">>), Header("te", <<"trailers">>),
      Header("x-trace", <<"1">>), Header("x-trace", <<"2">>) }

UpstreamHeaders ==
    { Header("Set-Cookie", <<"a=1">>), Header("set-cookie", <<"b=2">>),
      Header("Connection", <<"close">>), Header("content-length", <<"6">>) }

NoUpstream == [status |-> 0, body |-> "", headers |-> <<>>]

InitProxy ==
    /\ settings = DefaultSettings
    /\ now = 0
    /\ tok = <<>>
    /\ grant = <<>>
    /\ verdict = NoVerdict
    /\ req = NoReq
    /\ resp = NoResp
    /\ calls = <<>>
    /\ fin = NoFin
    /\ fout = NoFout
    /\ registry = NoRegistry

\* mcp_messages_alias up to "await client.post(...)".
AliasForward ==
    /\ req = NoReq
    /\ alias_auth(NoReq, settings, now).ok
    /\ \E inbound \in SeqsUpTo(InboundHeaders, MaxHeaders), body \in Bodies :
        /\ req' = [kind |-> "proxy", method |-> "POST", path |-> PathMessages,
                   headers |-> inbound, body |-> body, upstream |-> NoUpstream]
        /\ calls' = <<[via |-> "alias", method |-> "POST", body |-> body,
                       headers |-> httpx_request_headers(alias_request_headers(inbound))]>>
        /\ UNCHANGED <<registry, settings, now, tok, grant, verdict, resp, fin, fout>>

\* The sub-application answers, and the alias builds its own response.
AliasReturn ==
    /\ req.kind = "proxy"
    /\ req.upstream = NoUpstream
    /\ \E status \in {200, 202, 204}, body \in Bodies,
          headers \in SeqsUpTo(UpstreamHeaders, MaxHeaders) :
        /\ status = 204 => body = ""
        /\ req' = [req EXCEPT !.upstream =
                      [status |-> status, body |-> body, headers |-> headers]]
        /\ resp' = alias_response(status, body, out_headers(headers))
        /\ UNCHANGED <<registry, settings, now, tok, grant, verdict, calls, fin, fout>>

NextProxy == AliasForward \/ AliasReturn

SpecProxy == InitProxy /\ [][NextProxy]_vars

(***************************************************************************)
(* Properties of SpecProxy.                                                *)
(***************************************************************************)
Forwarded == req.kind = "proxy" /\ calls # <<>>

Answered == req.kind = "proxy" /\ req.upstream # NoUpstream

\* C11: the request the alias forwards carries every inbound header except
\* the hop-by-hop ones and host, and carries none of the hop-by-hop headers
\* and not the inbound host header.
C11_HopByHopNotForwarded ==
    Forwarded =>
        LET fwd == calls[1].headers
            inbound == req.headers
        IN  /\ \A i \in DOMAIN fwd, j \in DOMAIN inbound :
                  inbound[j].name \in hop_by_hop \cup {"host"} => fwd[i] # inbound[j]
            /\ \A j \in DOMAIN inbound :
                  inbound[j].name \notin hop_by_hop \cup {"host"} =>
                      \E i \in DOMAIN fwd : fwd[i] = inbound[j]

\* The headers of h whose lower-cased name is not hop-by-hop, as a list of
\* (lower-cased name, value) pairs; content-length, which frames the body,
\* is left out of the comparison.
EndToEnd(h) ==
    LET keep == SelectSeq(h, LAMBDA x :
                    HeaderLower(x.name) \notin hop_by_hop \cup {"content-length"})
    IN  [i \in DOMAIN keep |-> Header(HeaderLower(keep[i].name), keep[i].value)]

SameBag(a, b) ==
    /\ Len(a) = Len(b)
    /\ \A x \in Range(a) \cup Range(b) :
          Cardinality({i \in DOMAIN a : a[i] = x}) = Cardinality({i \in DOMAIN b : b[i] = x})

\* C12: the alias's response has the sub-application's status code and
\* body, and exactly the sub-application's headers minus the hop-by-hop
\* ones (names compared without regard to case): the same headers, each as
\* many times as the sub-application sent it.
C12_ResponseUnchanged ==
    Answered =>
        /\ resp.status = req.upstream.status
        /\ resp.body = req.upstream.body
        /\ SameBag(EndToEnd(resp.headers), EndToEnd(req.upstream.headers))

(***************************************************************************)
(* The API-key checks (security.py, auth.py) and POST /auth/token          *)
(* (routes/auth.py).                                                       *)
(***************************************************************************)
\* Python str.strip().
RECURSIVE StrStrip(_)
StrStrip(k) ==
    IF k # <<>> /\ Head(k) = SP THEN StrStrip(Tail(k))
    ELSE IF k # <<>> /\ k[Len(k)] = SP THEN StrStrip(SubSeq(k, 1, Len(k) - 1))
    ELSE k

\* security.py: (api_key or "").strip(), non-empty and in the key set.
api_key_is_allowed(api_key, s) ==
    LET key == IF api_key = NoneStr THEN <<>> ELSE StrStrip(api_key)
    IN  key # <<>> /\ key \in Range(mcp_api_keys(s))

\* auth.py: is_valid_api_key, which reads config.py's settings.
is_valid_api_key(api_key, s) ==
    IF mcp_api_keys(s) = <<>> THEN FALSE
    ELSE api_key \in Range(mcp_api_keys(s))

\* TokenRequest.scopes is None when the body omits it.
NoneList == <<NoneStr>>

TokenRequest(subject, scopes) == [subject |-> subject, scopes |-> scopes]

TokenError(code, text) ==
    [status |-> code, detail |-> text, access_token |-> <<>>,
     token_type |-> "", expires_in |-> 0]

TokenResponse(token, expires_in) ==
    [status |-> 200, detail |-> "", access_token |-> <<token>>,
     token_type |-> "bearer", expires_in |-> expires_in]

create_token_key_first(body, x_api_key, s, t) ==
    IF ~api_key_is_allowed(x_api_key, s) THEN TokenError(401, "Invalid API key")
    ELSE IF ~s.mcp_enable_auth THEN TokenError(400, "Auth is disabled")
    ELSE LET scopes == IF body.scopes # NoneList THEN body.scopes
                       ELSE s.mcp_required_scopes
         IN  TokenResponse(issue_jwt(body.subject, scopes, s, t),
                           s.mcp_jwt_ttl_seconds)

\* "body.scopes or settings.mcp_required_scopes" in place of the test
\* against None.
create_token_empty_defaults(body, x_api_key, s, t) ==
    IF ~s.mcp_enable_auth THEN TokenError(400, "Auth is disabled")
    ELSE IF ~api_key_is_allowed(x_api_key, s) THEN TokenError(401, "Invalid API key")
    ELSE LET scopes == IF body.scopes # NoneList /\ body.scopes # <<>>
                       THEN body.scopes
                       ELSE s.mcp_required_scopes
         IN  TokenResponse(issue_jwt(body.subject, scopes, s, t),
                           s.mcp_jwt_ttl_seconds)

create_token(body, x_api_key, s, t) ==
    IF ~s.mcp_enable_auth THEN TokenError(400, "Auth is disabled")
    ELSE IF ~api_key_is_allowed(x_api_key, s) THEN TokenError(401, "Invalid API key")
    ELSE LET scopes == IF body.scopes # NoneList THEN body.scopes
                       ELSE s.mcp_required_scopes
         IN  TokenResponse(issue_jwt(body.subject, scopes, s, t),
                           s.mcp_jwt_ttl_seconds)

(***************************************************************************)
(* SpecIssue: one issuance.  The process runs under any of a few           *)
(* settings, the clock reads any value, and either POST /auth/token is     *)
(* served or one of the two issuers is called directly.                    *)
(***************************************************************************)
KeyConfigs == { <<>>, <<"k1">>, <<"k1", ",", "K2">> }

IssueSettings ==
    { [DefaultSettings EXCEPT !.mcp_enable_auth = e,
                              !.mcp_api_keys_raw = k,
                              !.mcp_required_scopes = r,
                              !.mcp_jwt_ttl_seconds = ttl] :
        e \in BOOLEAN, k \in KeyConfigs, r \in {<<>>, <<ScopeA>>}, ttl \in 1..Ttl }

\* X-API-Key as it reaches the handler: the empty default when the header
\* is absent, else the header's value, which the server delivers without
\* surrounding whitespace.
PresentedKeys == { <<>>, <<"k1">>, <<"K2">>, <<"k2">>, <<"k1", SP, "K2">> }

RequestedScopes ==
    { NoneList, <<>>, <<ScopeB>>, <<ScopeA, ScopeB>>, << <<"a", SP, "b">> >> }

NoIssue ==
    [fn |-> "none", subject |-> "", scopes |-> <<>>, ttl_seconds |-> AbsentInt,
     x_api_key |-> <<>>, at |-> 0]

NotIssued == TokenError(0, "")

InitIssue ==
    /\ settings \in IssueSettings
    /\ now \in 0..MaxTime
    /\ tok = <<>>
    /\ grant = <<>>
    /\ verdict = NoVerdict
    /\ req = NoReq
    /\ resp = NoResp
    /\ calls = <<>>
    /\ fin = NoIssue
    /\ fout = NotIssued
    /\ registry = NoRegistry

\* POST /auth/token.
CreateToken ==
    /\ fin = NoIssue
    /\ \E subject \in Subjects, scopes \in RequestedScopes, x_api_key \in PresentedKeys :
        /\ fin' = [NoIssue EXCEPT !.fn = "create_token", !.subject = subject,
                                  !.scopes = scopes, !.x_api_key = x_api_key,
                                  !.at = now]
        /\ fout' = create_token(TokenRequest(subject, scopes), x_api_key, settings, now)
        /\ UNCHANGED <<registry, settings, now, tok, grant, verdict, req, resp, calls>>

\* A direct call of security.issue_jwt.
CallIssueJwt ==
    /\ fin = NoIssue
    /\ \E subject \in Subjects, scopes \in RequestedScopes \ {NoneList} :
        /\ fin' = [NoIssue EXCEPT !.fn = "issue_jwt", !.subject = subject,
                                  !.scopes = scopes, !.at = now]
        /\ fout' = TokenResponse(issue_jwt(subject, scopes, settings, now), 0)
        /\ UNCHANGED <<registry, settings, now, tok, grant, verdict, req, resp, calls>>

\* A direct call of auth.issue_jwt_for_client, with ttl_seconds left out
\* (AbsentInt) or given.
CallIssueJwtForClient ==
    /\ fin = NoIssue
    /\ \E client_id \in Subjects, scopes \in RequestedScopes \ {NoneList},
          ttl_seconds \in {AbsentInt} \cup 0..Ttl :
        /\ fin' = [NoIssue EXCEPT !.fn = "issue_jwt_for_client", !.subject = client_id,
                                  !.scopes = scopes, !.ttl_seconds = ttl_seconds,
                                  !.at = now]
        /\ fout' = TokenResponse(
                      issue_jwt_for_client(client_id, scopes, ttl_seconds, settings, now), 0)
        /\ UNCHANGED <<registry, settings, now, tok, grant, verdict, req, resp, calls>>

NextIssue == CreateToken \/ CallIssueJwt \/ CallIssueJwtForClient

SpecIssue == InitIssue /\ [][NextIssue]_vars

(***************************************************************************)
(* Properties of SpecIssue.                                                *)
(***************************************************************************)
\* s[a..b] is a maximal run of atoms of s that are not in seps.
IsFieldAt(s, a, b, seps) ==
    /\ a <= b
    /\ \A i \in a..b : s[i] \notin seps
    /\ a = 1 \/ s[a - 1] \in seps
    /\ b = Len(s) \/ s[b + 1] \in seps

\* The API Key Set a raw MCP_API_KEYS value denotes: its fields between
\* commas and whitespace.
KeySetOf(raw) ==
    {SubSeq(raw, x[1], x[2]) :
        x \in {y \in (DOMAIN raw) \X (DOMAIN raw) : IsFieldAt(raw, y[1], y[2], {SP, ","})}}

Minted == fin.fn \in {"issue_jwt", "issue_jwt_for_client"} /\ Len(fout.access_token) = 1

MintedPayload == fout.access_token[1].payload

\* C15: every minted token has sub equal to the subject, iss and aud equal
\* to the configured issuer and audience, and exp - iat equal to the
\* configured TTL when no ttl is given and otherwise to the ttl the caller
\* passed.
C15_TtlAsPassed ==
    Minted =>
        /\ MintedPayload.sub = fin.subject
        /\ MintedPayload.iss = settings.mcp_jwt_issuer
        /\ MintedPayload.aud = settings.mcp_jwt_audience
        /\ MintedPayload.exp - MintedPayload.iat =
              IF fin.ttl_seconds = AbsentInt THEN settings.mcp_jwt_ttl_seconds
              ELSE fin.ttl_seconds

(***************************************************************************)
(* SpecParse: the API-key checks applied to one raw MCP_API_KEYS value and *)
(* one presented key, and the two scope-claim parsers applied to one claim *)
(* value.                                                                  *)
(***************************************************************************)
MaxKeyStr == 3     \* atoms in a raw MCP_API_KEYS value
MaxKey == 2        \* atoms in a presented API key

RawKeyValues == SeqsUpTo({"k1", "K2", ",", SP, "."}, MaxKeyStr)

ApiKeys == SeqsUpTo({"k1", "K2", "k2", SP}, MaxKey)

ScopeClaimValues ==
    SeqsUpTo({"a", "b", SP}, MaxScopes + 1)
        \cup {ListValue(l) : l \in ScopeLists}
        \cup {NoneStr, <<"<int>", "5">>, <<"<int>", "0">>, <<"<dict>">>, <<"<dict>", "'x':1">>}

NoParse ==
    [fn |-> "none", raw |-> <<>>, key |-> <<>>, module |-> "config",
     value |-> <<>>, required |-> <<>>]

NotParsed == [accepted |-> FALSE, security |-> {}, auth |-> {}, allowed |-> FALSE]

InitParse ==
    /\ settings = DefaultSettings
    /\ now = 0
    /\ tok = <<>>
    /\ grant = <<>>
    /\ verdict = NoVerdict
    /\ req = NoReq
    /\ resp = NoResp
    /\ calls = <<>>
    /\ fin = NoParse
    /\ fout = NotParsed
    /\ registry = NoRegistry

\* security.api_key_is_allowed(api_key, settings), for settings of either
\* Settings class.
ApiKeyIsAllowed ==
    /\ fin = NoParse
    /\ \E raw \in RawKeyValues, api_key \in ApiKeys, module \in {"config", "core.config"} :
        /\ fin' = [NoParse EXCEPT !.fn = "api_key_is_allowed", !.raw = raw,
                                  !.key = api_key, !.module = module]
        /\ fout' = [NotParsed EXCEPT !.accepted =
                      api_key_is_allowed(api_key,
                          [DefaultSettings EXCEPT !.mcp_api_keys_raw = raw,
                                                  !.module = module])]
        /\ UNCHANGED <<registry, settings, now, tok, grant, verdict, req, resp, calls>>

\* auth.is_valid_api_key(api_key).
IsValidApiKey ==
    /\ fin = NoParse
    /\ \E raw \in RawKeyValues, api_key \in ApiKeys :
        /\ fin' = [NoParse EXCEPT !.fn = "is_valid_api_key", !.raw = raw,
                                  !.key = api_key]
        /\ fout' = [NotParsed EXCEPT !.accepted =
                      is_valid_api_key(api_key,
                          [DefaultSettings EXCEPT !.mcp_api_keys_raw = raw])]
        /\ UNCHANGED <<registry, settings, now, tok, grant, verdict, req, resp, calls>>

\* The scope claim `value` read by security.require_scopes and by
\* JwtTokenVerifier.verify_token, under required scopes `required`.
ParseScopeClaim ==
    /\ fin = NoParse
    /\ \E value \in ScopeClaimValues, required \in RequiredChoices :
        /\ fin' = [NoParse EXCEPT !.fn = "scope", !.value = value,
                                  !.required = required]
        /\ fout' = [NotParsed EXCEPT
                      !.security = token_scopes([NoClaims EXCEPT !.scope = value]),
                      !.auth = Range(parse_scopes(value)),
                      !.allowed = require_scopes([NoClaims EXCEPT !.scope = value],
                                      [DefaultSettings EXCEPT
                                          !.mcp_required_scopes = required]).ok]
        /\ UNCHANGED <<registry, settings, now, tok, grant, verdict, req, resp, calls>>

NextParse == ApiKeyIsAllowed \/ IsValidApiKey \/ ParseScopeClaim

SpecParse == InitParse /\ [][NextParse]_vars

(***************************************************************************)
(* Properties of SpecParse.                                                *)
(***************************************************************************)
\* C16: either API-key check accepts a presented key iff the key is, as
\* it stands, one of the fields of MCP_API_KEYS between commas and
\* whitespace; with no such field, or with an empty key, it accepts
\* nothing.
C16_ExactKeyMatch ==
    fin.fn \in {"api_key_is_allowed", "is_valid_api_key"} =>
        /\ fout.accepted <=> fin.key \in KeySetOf(fin.raw)
        /\ (KeySetOf(fin.raw) = {} \/ fin.key = <<>>) => ~fout.accepted

\* The scope set a claim value denotes: the whitespace-delimited labels of
\* a string, the (non-empty) elements of a list, nothing for another shape.
DenotedScopes(v) ==
    IF IsList(v) THEN Range(ListElems(v)) \ {<<>>}
    ELSE IF IsOther(v) THEN {}
    ELSE ScopeSetOf(v)

\* C18: both scope checks read the string 'a b' and the list ['a','b'] as
\* the scope set {a, b}, and a claim of any other shape as the empty set.
C18_ScopeClaimShapes ==
    fin.fn = "scope" =>
        /\ fout.security = DenotedScopes(fin.value)
        /\ fout.auth = DenotedScopes(fin.value)
        /\ (fin.value \in {<<"a", SP, "b">>, ListValue(<<ScopeA, ScopeB>>)}) =>
              (fout.security = {ScopeA, ScopeB} /\ fout.auth = {ScopeA, ScopeB})

(***************************************************************************)
(* SpecClaims: a token that was signed with the configured secret but not  *)
(* necessarily by this gateway's issuers (another deployment sharing the   *)
(* secret, an older release), so that any claim may be absent and iss and  *)
(* aud may name someone else.  It is presented to either verifier while    *)
(* the clock advances.                                                     *)
(***************************************************************************)
ForeignPayloads ==
    [ sub   : {Absent} \cup Subjects,
      iss   : {Absent, "iss1", "iss2"},
      aud   : {Absent, "aud1", "aud2"},
      iat   : {AbsentInt, 0},
      exp   : {AbsentInt, Ttl},
      scope : {<<>>, <<"a">>} ]

\* jwt.encode(payload, settings.mcp_jwt_secret) by whoever holds the secret.
MintToken ==
    /\ tok = <<>>
    /\ \E payload \in ForeignPayloads :
        /\ tok' = <<Encode(payload, settings.mcp_jwt_secret)>>
        /\ verdict' = NoVerdict
        /\ UNCHANGED <<registry, settings, now, grant, req, resp, calls, fin, fout>>

NextClaims == MintToken \/ VerifyHeader \/ VerifyToken \/ Tick

SpecClaims == InitJwt /\ [][NextClaims]_vars

(***************************************************************************)
(* Properties of SpecClaims.                                               *)
(***************************************************************************)
\* The last verification was of a correctly signed token before its expiry
\* time (a token without exp has none).
VerifiedSignedUnexpired ==
    /\ verdict.fn # "none"
    /\ tok # <<>>
    /\ SignatureBytes(tok[1]) = <<settings.mcp_jwt_secret, 0>>
    /\ tok[1].payload.exp = AbsentInt \/ verdict.at < tok[1].payload.exp

\* Every required claim is there, and iss and aud are the configured ones.
ClaimsComplete ==
    LET p == tok[1].payload IN
    /\ p.exp # AbsentInt /\ p.iat # AbsentInt /\ p.sub # Absent
    /\ p.iss = settings.mcp_jwt_issuer
    /\ p.aud = settings.mcp_jwt_audience

\* C17: a correctly signed, unexpired token is accepted only if exp, iat,
\* sub, iss and aud are all present and iss and aud equal the configured
\* issuer and audience; otherwise verify_jwt_from_header raises 401
\* "Invalid token" and verify_token returns no principal.
C17_RequiredClaimsAndIssAud ==
    VerifiedSignedUnexpired =>
        /\ verdict.ok => ClaimsComplete
        /\ ~ClaimsComplete =>
              /\ ~verdict.ok
              /\ ~verdict.allowed
              /\ verdict.fn = "verify_jwt_from_header" =>
                    (verdict.status = 401 /\ verdict.detail = "Invalid token")
        /\ (ClaimsComplete /\ verdict.fn = "verify_jwt_from_header") => verdict.ok

C17_Witness ==
    /\ VerifiedSignedUnexpired
    /\ verdict.fn = "verify_token"
    /\ tok[1].payload.iss = "iss2"
    /\ tok[1].payload.aud = settings.mcp_jwt_audience
    /\ tok[1].payload.sub = "agent1"
    /\ tok[1].payload.iat # AbsentInt
    /\ tok[1].payload.exp # AbsentInt
    /\ tok[1].payload.scope = <<"a">>
    /\ ~verdict.ok

(***************************************************************************)
(* SpecGate: what the auth gate does with the ASGI call it receives.  The  *)
(* server calls the gate with (scope, receive, send); the gate's steps are *)
(* recorded in order: reading the scope's headers, raising, and calling    *)
(* the inner application with some (scope, receive, send).  Two gates      *)
(* exist: middleware.py's raw ASGI class and main.py's function under      *)
(* @app.middleware("http"), which Starlette runs in BaseHTTPMiddleware.    *)
(***************************************************************************)
AsgiScope(r) == [type |-> r.type, path |-> r.path, headers |-> r.authorization]

\* The callables the server hands to the outermost application.
AsgiCall(r) == [scope |-> AsgiScope(r), receive |-> "receive", send |-> "send"]

GateStep(op) == [op |-> op, scope |-> AsgiScope(NoReq), receive |-> "", send |-> ""]

InnerCall(scope, receive, send) ==
    [op |-> "self.app", scope |-> scope, receive |-> receive, send |-> send]

\* middleware.py: McpAuthGateMiddleware.__call__, step by step.
gate_steps(a, r, s, t) ==
    LET g == McpAuthGateMiddleware(r, s, t)
    IN  (IF g.checked THEN <<GateStep("scope.headers")>> ELSE <<>>)
        \o (IF g.ok THEN <<InnerCall(a.scope, a.receive, a.send)>>
                    ELSE <<GateStep("raise")>>)

\* main.py: mcp_auth_middleware run by BaseHTTPMiddleware.__call__: a
\* non-http scope goes straight to the inner application; otherwise
\* Request(scope, receive, send) is built, the function is dispatched, and
\* call_next runs the inner application in a task with wrapped receive and
\* send, its messages being replayed through a _StreamingResponse.
http_middleware_steps(a, r, s, t) ==
    IF r.type # "http" THEN <<InnerCall(a.scope, a.receive, a.send)>>
    ELSE LET checked == s.mcp_enable_auth /\ StartsWith(r.path, s.mcp_mount_path)
             e == IF checked THEN AuthCheck(r.authorization, s, t)
                             ELSE Returned(<<>>, NoClaims)
         IN  <<GateStep("Request")>>
             \o (IF checked THEN <<GateStep("request.headers")>> ELSE <<>>)
             \o (IF e.ok
                 THEN <<GateStep("call_next"),
                        InnerCall(a.scope, "receive_or_disconnect", "send_no_error"),
                        GateStep("_StreamingResponse")>>
                 ELSE <<GateStep("raise")>>)

AsgiRequests ==
    { [NoReq EXCEPT !.kind = "asgi", !.type = type, !.path = path,
                    !.authorization = authorization] :
        path \in RequestPaths, authorization \in ClientHeaders,
        type \in {"http", "websocket"} }

\* The server calls app.py's gate.
GateCall ==
    /\ req = NoReq
    /\ \E r \in AsgiRequests :
        /\ req' = r
        /\ fin' = [fn |-> "McpAuthGateMiddleware.__call__"] @@ AsgiCall(r)
        /\ calls' = gate_steps(AsgiCall(r), r, settings, now)
        /\ UNCHANGED <<registry, settings, now, tok, grant, verdict, resp, fout>>

\* The server calls main.py's gate.
HttpMiddlewareCall ==
    /\ req = NoReq
    /\ \E r \in AsgiRequests :
        /\ req' = r
        /\ fin' = [fn |-> "mcp_auth_middleware"] @@ AsgiCall(r)
        /\ calls' = http_middleware_steps(AsgiCall(r), r, settings, now)
        /\ UNCHANGED <<registry, settings, now, tok, grant, verdict, resp, fout>>

NextGate == ObtainToken \/ Tick \/ GateCall \/ HttpMiddlewareCall

SpecGate == Init /\ [][NextGate]_vars

(***************************************************************************)
(* Properties of SpecGate.                                                 *)
(***************************************************************************)
GateAllowed ==
    req.kind = "asgi" /\ \E i \in DOMAIN calls : calls[i].op = "self.app"

\* C19: when the gate allows a request, the inner application is called
\* with the very scope, receive and send the gate was called with; the gate
\* neither reads the body (no receive of its own) nor wraps or replays the
\* response, and sends nothing before it has decided.
C19_GatePassThrough ==
    GateAllowed =>
        \A i \in DOMAIN calls :
            /\ calls[i].op \notin {"receive", "send", "_StreamingResponse"}
            /\ calls[i].op = "self.app" =>
                  /\ calls[i].scope = fin.scope
                  /\ calls[i].receive = fin.receive
                  /\ calls[i].send = fin.send

(***************************************************************************)
(* SpecTools: the tool registries.  Importing mcp_tool_gateway.tools runs  *)
(* add.py and ping.py, which register themselves at import time;           *)
(* create_app then calls register_all_tools(); after that the HTTP routes  *)
(* of routes/tools.py and MCP's list_tools answer from their registries.   *)
(***************************************************************************)
MaxCalls == 2      \* calls of register_all_tools after the one of create_app

ToolNames == {"ping", "add", "web_search"}

\* tools/__init__.py: _TOOL_CLASSES, by spec.name.
tool_classes == <<"ping", "add", "web_search">>

\* dict[name] = tool, and FastMCP's add_tool: a name already there keeps its
\* place, a new one goes last.
Registered(names, name) ==
    IF name \in Range(names) THEN names ELSE Append(names, name)

\* tools/registry.py: register_tool.
register_tool(reg, name) ==
    [reg EXCEPT !.tool_registry = Registered(reg.tool_registry, name)]

\* tools/base.py, tools/_base.py: tool_decorator -> mcp.tool(name=...).
\* mcp_calls lists every call of mcp.tool, mcp_tools the server's tool table.
tool_register(reg, name) ==
    [reg EXCEPT !.mcp_tools = Registered(reg.mcp_tools, name),
                !.mcp_calls = Append(reg.mcp_calls, name)]

\* The last three lines of add.py and of ping.py.
import_tool_module(reg, name) == tool_register(register_tool(reg, name), name)

RECURSIVE register_each(_, _)
register_each(reg, classes) ==
    IF classes = <<>> THEN reg
    ELSE register_each(
            [tool_register(reg, Head(classes))
                EXCEPT !.tools = Append(reg.tools, Head(classes)),
                       !.tool_by_name = Registered(reg.tool_by_name, Head(classes))],
            Tail(classes))

\* tools/__init__.py: register_all_tools.
register_all_tools(reg) ==
    IF reg.tools # <<>> THEN reg ELSE register_each(reg, tool_classes)

\* tools/registry.py: list_tool_specs and get_tool, which routes/tools.py
\* imports.
list_tool_specs(reg) == reg.tool_registry

get_tool(reg, tool_name) == tool_name \in Range(reg.tool_registry)

ToolsAnswer(status, names) == [status |-> status, names |-> names]

\* import mcp_tool_gateway.tools: .add, .ping, .web_search in that order.
ImportTools ==
    /\ registry.phase = "none"
    /\ registry' = [import_tool_module(import_tool_module(registry, "add"), "ping")
                       EXCEPT !.phase = "imported"]
    /\ UNCHANGED <<settings, now, tok, grant, verdict, req, resp, calls, fin, fout>>

\* app.py: create_app calls register_all_tools().
RegisterAllTools ==
    /\ registry.phase = "imported"
    /\ registry' = [register_all_tools(registry) EXCEPT !.phase = "started"]
    /\ UNCHANGED <<settings, now, tok, grant, verdict, req, resp, calls, fin, fout>>

\* A later register_all_tools(), called directly or by tools/__init__.py's
\* list_tool_specs() or get_tool(name).
CallRegisterAllTools ==
    /\ registry.phase = "started"
    /\ registry.calls < MaxCalls
    /\ req = NoReq
    /\ registry' = [register_all_tools(registry) EXCEPT !.calls = @ + 1]
    /\ UNCHANGED <<settings, now, tok, grant, verdict, req, resp, calls, fin, fout>>

\* GET /tools.
ListTools ==
    /\ registry.phase = "started"
    /\ req = NoReq
    /\ req' = [NoReq EXCEPT !.kind = "GET /tools"]
    /\ fout' = ToolsAnswer(200, list_tool_specs(registry))
    /\ UNCHANGED <<registry, settings, now, tok, grant, verdict, resp, calls, fin>>

\* GET /tools/{tool_name}.
ToolDetails ==
    /\ registry.phase = "started"
    /\ req = NoReq
    /\ \E tool_name \in ToolNames \cup {"nope", "Ping"} :
        /\ req' = [NoReq EXCEPT !.kind = "GET /tools/{tool_name}",
                                !.path = <<tool_name>>]
        /\ fout' = IF get_tool(registry, tool_name)
                   THEN ToolsAnswer(200, <<tool_name>>)
                   ELSE ToolsAnswer(404, <<>>)
        /\ UNCHANGED <<registry, settings, now, tok, grant, verdict, resp, calls, fin>>

\* MCP list_tools on the FastMCP instance the tools registered with.
McpListTools ==
    /\ registry.phase = "started"
    /\ req = NoReq
    /\ req' = [NoReq EXCEPT !.kind = "mcp list_tools"]
    /\ fout' = ToolsAnswer(200, registry.mcp_tools)
    /\ UNCHANGED <<registry, settings, now, tok, grant, verdict, resp, calls, fin>>

NextTools ==
    \/ ImportTools
    \/ RegisterAllTools
    \/ CallRegisterAllTools
    \/ ListTools
    \/ ToolDetails
    \/ McpListTools

SpecTools == Init /\ [][NextTools]_vars

(***************************************************************************)
(* Properties of SpecTools.                                                *)
(***************************************************************************)
\* C20: after start-up GET /tools names ping, add and web_search, and the
\* names it returns are exactly the tools registered with the MCP server.
C20_ToolsListMatchesMcp ==
    req.kind = "GET /tools" =>
        /\ ToolNames \subseteq Range(fout.names)
        /\ Range(fout.names) = Range(registry.mcp_tools)

\* How many times mcp.tool was called for a name.
TimesRegistered(name) ==
    Cardinality({i \in DOMAIN registry.mcp_calls : registry.mcp_calls[i] = name})

\* C21: once register_all_tools has run, however often it is called again,
\* every tool has been registered with the MCP server exactly once, and
\* _TOOLS and _TOOL_BY_NAME hold exactly one entry per class of
\* _TOOL_CLASSES.
C21_RegisteredExactlyOnce ==
    registry.phase = "started" =>
        /\ \A name \in ToolNames : TimesRegistered(name) = 1
        /\ registry.tools = tool_classes
        /\ registry.tool_by_name = tool_classes

(***************************************************************************)
(* SpecRun: tools/_base.py, the convenience runners of BaseTool.  A tool's *)
(* registered callable is described by how it was defined (`kind`) and by  *)
(* what it produces: the type of the value it returns and the elements     *)
(* that value holds (for "gen" and "async gen", the elements it yields).   *)
(***************************************************************************)
MaxItems == 2      \* elements in a value a tool returns

CallableKinds == {"none", "def", "def gen", "async def", "async gen"}

ResultTypes == {"str", "bytes", "dict", "int", "list", "tuple", "aiter"}

\* inspect.iscoroutinefunction / inspect.isasyncgenfunction.
iscoroutinefunction(fn) == fn.kind = "async def"
isasyncgenfunction(fn) == fn.kind = "async gen"

\* What fn(*args) evaluates to (awaited, for a coroutine function).
CallResult(fn) ==
    [type |-> CASE fn.kind = "def gen" -> "generator"
                [] fn.kind = "async gen" -> "async_generator"
                [] OTHER -> fn.type,
     elems |-> fn.elems]

RunReturned(value) ==
    [raised |-> "", invoked |-> TRUE, value |-> value, items |-> <<>>, end |-> "return"]

RunRaised(e) ==
    [raised |-> e, invoked |-> FALSE, value |-> CallResult([kind |-> "def", type |-> "int", elems |-> <<>>]),
     items |-> <<>>, end |-> "raise"]

Streamed(items, end) ==
    [raised |-> IF end = "RuntimeError" THEN end ELSE "", invoked |-> TRUE,
     value |-> CallResult([kind |-> "def", type |-> "int", elems |-> <<>>]),
     items |-> items, end |-> end]

\* BaseTool._ensure_fn: the cached callable, registering first if needed;
\* kind "none" is a tool whose register() caches nothing.
ensure_fn(fn) == fn.kind # "none"

\* BaseTool.run_sync.
run_sync(fn) ==
    IF ~ensure_fn(fn) THEN RunRaised("RuntimeError")
    ELSE IF iscoroutinefunction(fn) THEN RunRaised("RuntimeError")
    ELSE RunReturned(CallResult(fn))

\* _iterate_sync_iterator_in_thread: each next(it) runs in a worker thread.
\* At exhaustion next raises StopIteration inside the thread, which cannot
\* be set on the awaited future: the await then never completes (Python up
\* to 3.11) or raises RuntimeError (3.12 on); `except StopIteration` is not
\* reached in either.
iterate_sync_iterator_in_thread(elems) ==
    {Streamed(elems, end) : end \in {"hang", "RuntimeError"}}

\* _coerce_to_async_stream: the set of runs the build can produce.
coerce_to_async_stream(obj) ==
    IF obj.type \in {"aiter", "async_generator"}
    THEN {Streamed(obj.elems, "stop")}
    ELSE IF obj.type \in {"list", "tuple", "generator"}
    THEN iterate_sync_iterator_in_thread(obj.elems)
    ELSE {Streamed(<<obj>>, "stop")}

\* BaseTool.run_stream.
run_stream(fn) ==
    IF ~ensure_fn(fn) THEN {RunRaised("RuntimeError")}
    ELSE IF isasyncgenfunction(fn) THEN {Streamed(fn.elems, "stop")}
    ELSE coerce_to_async_stream(CallResult(fn))

ToolCallables ==
    [kind : CallableKinds, type : ResultTypes, elems : SeqsUpTo({"x", "y"}, MaxItems)]

InitRun ==
    /\ settings = DefaultSettings
    /\ now = 0
    /\ tok = <<>>
    /\ grant = <<>>
    /\ verdict = NoVerdict
    /\ req = NoReq
    /\ resp = NoResp
    /\ calls = <<>>
    /\ fin = NoFin
    /\ fout = NoFout
    /\ registry = NoRegistry

RunSync ==
    /\ fin = NoFin
    /\ \E fn \in ToolCallables :
        /\ fin' = [fn |-> "run_sync", tool |-> fn]
        /\ fout' = run_sync(fn)
        /\ UNCHANGED <<registry, settings, now, tok, grant, verdict, req, resp, calls>>

RunStream ==
    /\ fin = NoFin
    /\ \E fn \in ToolCallables :
        /\ fin' = [fn |-> "run_stream", tool |-> fn]
        /\ fout' \in run_stream(fn)
        /\ UNCHANGED <<registry, settings, now, tok, grant, verdict, req, resp, calls>>

NextRun == RunSync \/ RunStream

SpecRun == InitRun /\ [][NextRun]_vars

(***************************************************************************)
(* Properties of SpecRun.                                                  *)
(***************************************************************************)
\* C22: run_sync returns the callable's result when the callable is
\* synchronous (def), and raises RuntimeError without calling it exactly
\* when the callable is an async function (async def, with or without
\* yield).
C22_RunSyncRaisesIffAsync ==
    (fin.fn = "run_sync" /\ fin.tool.kind # "none") =>
        /\ fin.tool.kind \in {"def", "def gen"} =>
              (fout.raised = "" /\ fout.value = CallResult(fin.tool))
        /\ (fout.raised = "RuntimeError" /\ ~fout.invoked)
              <=> fin.tool.kind \in {"async def", "async gen"}

\* C23: when the tool returns a value, run_stream yields the value itself,
\* once, if it is not a stream (str, bytes, dict, int), and yields the
\* elements in order and then terminates if it is a finite iterable (list,
\* tuple).
C23_RunStreamItems ==
    (fin.fn = "run_stream" /\ fin.tool.kind \in {"def", "async def"}) =>
        /\ fin.tool.type \in {"str", "bytes", "dict", "int"} =>
              (fout.items = <<CallResult(fin.tool)>> /\ fout.end = "stop")
        /\ fin.tool.type \in {"list", "tuple"} =>
              (fout.items = fin.tool.elems /\ fout.end = "stop")

(***************************************************************************)
(* SpecWeb: the web fetch tool and its domain allowlist.  Three copies of  *)
(* web_fetch exist (tools/web.py, mcp/tools/web.py,                        *)
(* services/web_service.py).  A host name is a string of label atoms and   *)
(* "." atoms; a URL is its scheme and its hostname as urlparse gives it    *)
(* (lower-cased, empty when the URL has none).                             *)
(***************************************************************************)
\* config.py: Settings.allowed_domains.
allowed_domains(s) ==
    LET parts == split_csv(s.web_allowed_domains_raw)
    IN  [i \in DOMAIN parts |-> StripDots(StrLower(parts[i]))]

\* Python str.endswith().
EndsWith(s, p) == Len(p) <= Len(s) /\ SubSeq(s, Len(s) - Len(p) + 1, Len(s)) = p

\* _domain_re = ^[a-z0-9.-]+$ (ignoring case), on the atoms the model uses.
domain_re_match(host) ==
    host # <<>> /\ \A i \in DOMAIN host : host[i] \in {"example", "com", "evil", "."}

\* tools/web.py: _is_subdomain.
is_subdomain(host, base) ==
    LET h == StripDots(StrLower(host))
        b == StripDots(StrLower(base))
    IN  h = b \/ EndsWith(h, <<".">> \o b)

\* tools/web.py: _domain_allowed.
domain_allowed(host, s) ==
    LET h == StripDots(StrLower(host))
        allowed == allowed_domains(s)
    IN  IF h = <<>> \/ ~domain_re_match(h) THEN FALSE
        ELSE IF allowed = <<>> THEN TRUE
        ELSE IF <<"*">> \in Range(allowed) THEN TRUE
        ELSE \E d \in Range(allowed) : is_subdomain(h, d)

\* mcp/tools/web.py: _domain_allowed.
domain_allowed_mcp(host, s) ==
    LET h == StripDots(StrLower(host))
        allowed == allowed_domains(s)
    IN  IF h = <<>> \/ ~domain_re_match(h) THEN FALSE
        ELSE IF allowed = <<>> THEN FALSE
        ELSE \E d \in Range(allowed) : h = d \/ EndsWith(h, <<".">> \o d)

\* services/web_service.py: _url_allowed.
url_allowed(url) == url.scheme \in {"http", "https"} /\ url.hostname # <<>>

Fetch(fetched, error) == [fetched |-> fetched, error |-> error]

\* web_fetch of each module: `fetched` tells whether client.get(url) is
\* reached.
web_fetch(module, url, s) ==
    CASE module = "tools.web" ->
           IF url.scheme \notin {"http", "https"} THEN Fetch(FALSE, "ValueError")
           ELSE IF ~domain_allowed(url.hostname, s) THEN Fetch(FALSE, "PermissionError")
           ELSE Fetch(TRUE, "")
      [] module = "mcp.tools.web" ->
           IF url.scheme \in {"http", "https"} /\ url.hostname # <<>>
              /\ domain_allowed_mcp(url.hostname, s)
           THEN Fetch(TRUE, "") ELSE Fetch(FALSE, "ValueError")
      [] OTHER ->
           IF url_allowed(url) THEN Fetch(TRUE, "") ELSE Fetch(FALSE, "URL not allowed")

WebModules == {"tools.web", "mcp.tools.web", "services.web_service"}

AllowlistValues ==
    { <<>>, <<SP>>, <<"example", ".", "com">>, <<"*">>,
      <<"Example", ".", "com", ".", ",", SP, "evil">> }

Hostnames ==
    { <<>>, <<"example", ".", "com">>, <<"evil", ".", "example", ".", "com">>,
      <<"evil", "example", ".", "com">>, <<"evil", ".", "com">>, <<"e_x", ".", "com">>,
      <<"example", ".", "com", ".">> }

Urls == [scheme : {"http", "https", "ftp"}, hostname : Hostnames]

InitWeb ==
    /\ settings \in {[DefaultSettings EXCEPT !.web_allowed_domains_raw = raw] :
                        raw \in AllowlistValues}
    /\ now = 0
    /\ tok = <<>>
    /\ grant = <<>>
    /\ verdict = NoVerdict
    /\ req = NoReq
    /\ resp = NoResp
    /\ calls = <<>>
    /\ fin = NoFin
    /\ fout = NoFout
    /\ registry = NoRegistry

WebFetch ==
    /\ fin = NoFin
    /\ \E module \in WebModules, url \in Urls :
        /\ fin' = [fn |-> "web_fetch", module |-> module, url |-> url]
        /\ fout' = web_fetch(module, url, settings)
        /\ UNCHANGED <<registry, settings, now, tok, grant, verdict, req, resp, calls>>

NextWeb == WebFetch

SpecWeb == InitWeb /\ [][NextWeb]_vars

(***************************************************************************)
(* Properties of SpecWeb.                                                  *)
(***************************************************************************)
\* C24: with an empty domain allowlist web fetch denies every host: no URL
\* is fetched.
C24_EmptyAllowlistDeniesAll ==
    (fin.fn = "web_fetch" /\ allowed_domains(settings) = <<>>) => ~fout.fetched

(***************************************************************************)
(* SpecFiles: tools/files.py, _safe_join.  A path is a flag telling        *)
(* whether it is absolute and the sequence of its components.  The file    *)
(* system has the directories /srv/data (the base), /etc, and two symbolic *)
(* links inside the base: link -> /etc and in -> /srv/data/a.              *)
(***************************************************************************)
MaxPath == 3       \* components in the path a caller passes

Path(abs, parts) == [abs |-> abs, parts |-> parts]

Cwd == <<"srv">>

\* The target of a symbolic link, or the path itself.
ReadLink(p) ==
    CASE p = <<"srv", "data", "link">> -> <<"etc">>
      [] p = <<"srv", "data", "in">>   -> <<"srv", "data", "a">>
      [] OTHER -> p

\* Path.resolve(), component by component from the directory `cur`: "."
\* is dropped, ".." goes to the parent (the root is its own parent), a
\* symbolic link is replaced by its target.
RECURSIVE ResolveFrom(_, _)
ResolveFrom(cur, rest) ==
    IF rest = <<>> THEN cur
    ELSE IF Head(rest) = "." THEN ResolveFrom(cur, Tail(rest))
    ELSE IF Head(rest) = ".."
         THEN ResolveFrom(IF cur = <<>> THEN cur ELSE SubSeq(cur, 1, Len(cur) - 1),
                          Tail(rest))
    ELSE ResolveFrom(ReadLink(Append(cur, Head(rest))), Tail(rest))

\* Path.resolve(): an absolute path without "..", "." or links.
Resolve(p) == ResolveFrom(IF p.abs THEN <<>> ELSE Cwd, p.parts)

\* base / user_path: an absolute right operand replaces the left one.
PathJoin(b, u) == IF u.abs THEN u ELSE Path(b.abs, b.parts \o u.parts)

\* Path.parents.
Parents(p) == {SubSeq(p, 1, k) : k \in 0..(Len(p) - 1)}

SafePath(p) == [raised |-> "", path |-> p]

SafeError == [raised |-> "ValueError", path |-> <<>>]

\* The check made on the joined path before it is resolved.
safe_join_unresolved(base, user_path) ==
    LET b == Resolve(base)
        j == PathJoin(Path(TRUE, b), user_path)
    IN  IF b # j.parts /\ b \notin Parents(j.parts) THEN SafeError
        ELSE SafePath(Resolve(j))

\* tools/files.py (and mcp/tools/files.py): _safe_join.
safe_join(base, user_path) ==
    LET b == Resolve(base)
        p == Resolve(PathJoin(Path(TRUE, b), user_path))
    IN  IF b # p /\ b \notin Parents(p) THEN SafeError
        ELSE SafePath(p)

\* Path(settings.files_base_dir): "./data", "/srv/data", "/srv/data/in/..".
BaseDirs ==
    { Path(FALSE, <<".", "data">>), Path(TRUE, <<"srv", "data">>),
      Path(TRUE, <<"srv", "data", "in", "..">>) }

UserPaths ==
    [abs : BOOLEAN, parts : SeqsUpTo({"..", "a", "link", "in", "srv", "data"}, MaxPath)]

SafeJoin ==
    /\ fin = NoFin
    /\ \E base \in BaseDirs, user_path \in UserPaths :
        /\ fin' = [fn |-> "_safe_join", base |-> base, user_path |-> user_path]
        /\ fout' = safe_join(base, user_path)
        /\ UNCHANGED <<registry, settings, now, tok, grant, verdict, req, resp, calls>>

NextFiles == SafeJoin

SpecFiles == InitRun /\ [][NextFiles]_vars

(***************************************************************************)
(* Properties of SpecFiles.                                                *)
(***************************************************************************)
\* The real location of the base directory.
BaseLocation == <<"srv", "data">>

\* p is the base directory or a location below it.
InsideBase(p) ==
    /\ Len(p) >= Len(BaseLocation)
    /\ \A i \in 1..Len(BaseLocation) : p[i] = BaseLocation[i]

\* C25: for every user_path, with ".." components, through links or
\* absolute, _safe_join either raises ValueError or returns a resolved path
\* (no "..", no link left) that is the base directory or lies inside it.
C25_SafeJoinStaysInside ==
    fin.fn = "_safe_join" =>
        \/ fout.raised = "ValueError"
        \/ /\ fout.raised = ""
           /\ InsideBase(fout.path)
           /\ ".." \notin Range(fout.path)
           /\ ReadLink(fout.path) = fout.path

\* A traversal below the base and back up beyond it is refused, and one
\* that comes back inside is returned.
C25_Witness ==
    /\ fin.fn = "_safe_join"
    /\ fin.user_path = Path(FALSE, <<"a", "..", "..">>)
    /\ fout.raised = "ValueError"

(***************************************************************************)
(* Further properties of Spec.                                             *)
(***************************************************************************)
\* C26: with auth enabled the sub-application is invoked only after the
\* bearer token was verified and the scopes checked, on every route that
\* leads to it (the configured mount, the /mcp compatibility mount, the
\* POST /messages alias), whatever the configured mount path.
C26_EveryRouteGated ==
    (Served /\ settings.mcp_enable_auth /\ calls # <<>>) =>
        /\ resp.auth = "pass"
        /\ AuthCheck(HeaderOrEmpty(req), settings, now).ok

\* C27: verification comes before the scope check, in the gate and in the
\* alias: a request whose token does not verify is answered 401 even if
\* its scopes would not suffice either, and 403 is answered only for a
\* token that verified.
C27_VerifyBeforeScopes ==
    (Served /\ resp.auth = "reject") =>
        LET v == verify_jwt_from_header(HeaderOrEmpty(req), settings, now)
        IN  /\ ~v.ok => resp.status = 401
            /\ resp.status = 403 => v.ok
            /\ v.ok => resp.status = 403

(***************************************************************************)
(* Further properties of SpecGate.                                         *)
(***************************************************************************)
\* The path begins with the protected prefix, character by character.
HasMountPrefix ==
    /\ Len(req.path) >= Len(settings.mcp_mount_path)
    /\ \A i \in 1..Len(settings.mcp_mount_path) :
          req.path[i] = settings.mcp_mount_path[i]

\* The gate looked at the request's headers.
HeadersExamined ==
    \E i \in DOMAIN calls : calls[i].op \in {"scope.headers", "request.headers"}

InnerCalls == {i \in DOMAIN calls : calls[i].op = "self.app"}

\* C28: with auth enabled, an http request whose path does not start with
\* the protected prefix is handed to the inner application exactly once
\* and its headers are not examined, whatever its Authorization header;
\* the check is applied to exactly the paths that start with the prefix.
C28_CheckOnlyUnderPrefix ==
    (req.kind = "asgi" /\ req.type = "http" /\ settings.mcp_enable_auth) =>
        /\ HeadersExamined <=> HasMountPrefix
        /\ ~HasMountPrefix => Cardinality(InnerCalls) = 1

C28_Witness ==
    /\ req.kind = "asgi" /\ req.type = "http" /\ settings.mcp_enable_auth
    /\ req.path = PathHealth
    /\ req.authorization = <<"Token", SP, "T">>
    /\ fin.fn = "McpAuthGateMiddleware.__call__"
    /\ ~HeadersExamined
    /\ Cardinality(InnerCalls) = 1

(***************************************************************************)
(* Further properties of SpecIssue.                                        *)
(***************************************************************************)
TokenIssued == fin.fn = "create_token" /\ fout.status = 200

\* C29: a token issued by POST /auth/token without a scopes field carries
\* the configured required scopes and passes require_scopes under the same
\* settings; with a scopes field, even an empty one, it carries exactly the
\* request's scopes: the claim is the given labels joined by single spaces,
\* which denotes the same set of labels whenever the labels are clean.
C29_OmittedScopesDefault ==
    TokenIssued =>
        LET claims == fout.access_token[1].payload IN
        /\ fin.scopes = NoneList =>
              /\ ScopeSetOf(claims.scope) = Range(settings.mcp_required_scopes)
              /\ require_scopes(claims, settings).ok
        /\ fin.scopes # NoneList =>
              /\ claims.scope = StrJoin(fin.scopes)
              /\ (\A l \in Range(fin.scopes) : CleanLabel(l)) =>
                    ScopeSetOf(claims.scope) = Range(fin.scopes)

\* An empty scopes field is taken as given: the token then fails the scope
\* check when scopes are required.
C29_Witness ==
    /\ TokenIssued
    /\ fin.scopes = <<>>
    /\ settings.mcp_required_scopes = <<ScopeA>>
    /\ fout.access_token[1].payload.scope = <<>>
    /\ ~require_scopes(fout.access_token[1].payload, settings).ok

(***************************************************************************)
(* SpecLifespan: app.py's lifespan and lifespan.py.  The sub-application   *)
(* may have a startup / shutdown hook of its own, its router may have one, *)
(* and a hook may raise; the MCP server may have a session manager whose   *)
(* run() raises or whose context raises on entry or on exit.  `fin` holds  *)
(* these facts, `fout` the position in lifespan and the calls made so far. *)
(***************************************************************************)
LifespanConfigs ==
    [ fn : {"lifespan"},
      app_startup : BOOLEAN, router_startup : BOOLEAN,
      app_shutdown : BOOLEAN, router_shutdown : BOOLEAN,
      startup_raises : BOOLEAN, shutdown_raises : BOOLEAN,
      session_manager : {"absent", "run_raises", "ok", "enter_raises", "exit_raises"} ]

HookCall(events, raised) == [events |-> events, raised |-> raised]

\* lifespan.py: startup_subapp.
startup_subapp(c) ==
    IF c.app_startup THEN HookCall(<<"app.startup">>, c.startup_raises)
    ELSE IF c.router_startup THEN HookCall(<<"router.startup">>, c.startup_raises)
    ELSE HookCall(<<>>, FALSE)

\* lifespan.py: shutdown_subapp.
shutdown_subapp(c) ==
    IF c.app_shutdown THEN HookCall(<<"app.shutdown">>, c.shutdown_raises)
    ELSE IF c.router_shutdown THEN HookCall(<<"router.shutdown">>, c.shutdown_raises)
    ELSE HookCall(<<>>, FALSE)

\* sm_cm is not None: run() exists and did not raise.
HasSessionContext(c) == c.session_manager \in {"ok", "enter_raises", "exit_raises"}

\* The finally clause of lifespan.
lifespan_finally(c) == <<"shutdown_subapp">> \o shutdown_subapp(c).events

\* Leaving the yield without a finally clause: shutdown only when no
\* exception is on its way.
lifespan_exit_no_finally(c, how) ==
    (IF HasSessionContext(c) THEN <<"sm.exit">> ELSE <<>>)
    \o (IF how = "exception" \/ c.session_manager = "exit_raises" THEN <<>>
        ELSE lifespan_finally(c))

\* Leaving the yield: the session-manager context exits, then finally.
lifespan_exit(c, how) ==
    (IF HasSessionContext(c) THEN <<"sm.exit">> ELSE <<>>) \o lifespan_finally(c)

LifespanAt(pc, trace) == [pc |-> pc, trace |-> trace]

InitLifespan ==
    /\ settings = DefaultSettings
    /\ now = 0
    /\ tok = <<>>
    /\ grant = <<>>
    /\ verdict = NoVerdict
    /\ req = NoReq
    /\ resp = NoResp
    /\ calls = <<>>
    /\ fin \in LifespanConfigs
    /\ fout = LifespanAt("init", <<>>)
    /\ registry = NoRegistry

\* session_manager.run(), then await startup_subapp(mcp_app).
LifespanStartup ==
    /\ fout.pc = "init"
    /\ LET r == startup_subapp(fin) IN
        fout' = IF r.raised
                THEN LifespanAt("failed", <<"startup_subapp">> \o r.events)
                ELSE LifespanAt("started",
                        <<"startup_subapp">> \o r.events \o <<"startup_subapp.done">>)
    /\ UNCHANGED <<registry, settings, now, tok, grant, verdict, req, resp, calls, fin>>

\* try: async with sm_cm: yield / yield.
LifespanEnter ==
    /\ fout.pc = "started"
    /\ fout' = IF fin.session_manager = "enter_raises"
               THEN LifespanAt("stopped",
                       fout.trace \o <<"sm.enter">> \o lifespan_finally(fin))
               ELSE LifespanAt("serving",
                       fout.trace
                       \o (IF HasSessionContext(fin) THEN <<"sm.enter">> ELSE <<>>)
                       \o <<"yield">>)
    /\ UNCHANGED <<registry, settings, now, tok, grant, verdict, req, resp, calls, fin>>

\* The server resumes lifespan at the yield: normally at shutdown, or by
\* throwing the exception that ended serving.
LifespanExit ==
    /\ fout.pc = "serving"
    /\ \E how \in {"shutdown", "exception"} :
        /\ fout' = LifespanAt("stopped",
                       fout.trace \o <<how>> \o lifespan_exit(fin, how))
        /\ UNCHANGED <<registry, settings, now, tok, grant, verdict, req, resp, calls, fin>>

NextLifespan == LifespanStartup \/ LifespanEnter \/ LifespanExit

SpecLifespan == InitLifespan /\ [][NextLifespan]_vars

(***************************************************************************)
(* Properties of SpecLifespan.                                             *)
(***************************************************************************)
Times(trace, events) == Cardinality({i \in DOMAIN trace : trace[i] \in events})

\* C30: the sub-application's startup has completed before lifespan
\* yields; once startup has succeeded, every way out of lifespan (normal
\* shutdown, an exception while serving, an exception of the session
\* manager's context) calls shutdown_subapp exactly once, and not before;
\* startup_subapp and shutdown_subapp each call at most one hook, the
\* app's own if there is one and else the router's.
C30_StartupBeforeServingShutdownOnce ==
    LET t == fout.trace IN
    /\ \A i \in DOMAIN t : t[i] = "yield" =>
          \E j \in 1..(i - 1) : t[j] = "startup_subapp.done"
    /\ fout.pc = "stopped" => Times(t, {"shutdown_subapp"}) = 1
    /\ fout.pc \in {"init", "started", "serving", "failed"} =>
          Times(t, {"shutdown_subapp", "app.shutdown", "router.shutdown"}) = 0
    /\ Times(t, {"app.startup", "router.startup"}) <= 1
    /\ Times(t, {"app.shutdown", "router.shutdown"}) <= 1
    /\ Times(t, {"router.startup"}) = 1 => ~fin.app_startup
    /\ Times(t, {"router.shutdown"}) = 1 => ~fin.app_shutdown
    /\ fout.pc \notin {"init"} =>
          Times(t, {"app.startup"}) = (IF fin.app_startup THEN 1 ELSE 0)

\* Serving ended with an exception inside the session manager's context,
\* and the router's shutdown hook was the one called.
C30_Witness ==
    /\ fout.pc = "stopped"
    /\ Times(fout.trace, {"exception"}) = 1
    /\ Times(fout.trace, {"sm.exit"}) = 1
    /\ Times(fout.trace, {"shutdown_subapp"}) = 1
    /\ Times(fout.trace, {"router.shutdown"}) = 1
    /\ fin.router_startup /\ ~fin.app_startup

====
